---- MODULE Spec2Model ----
(***************************************************************************)
(* kitium-ai/environments.                                                *)
(*                                                                         *)
(* Spec: environment hierarchy resolution, EnvironmentResolver (registry  *)
(* construction, merge, cycle validation) and EnvironmentManager (lookup, *)
(* promotion).                                                             *)
(* SpecFingerprint: fingerprintSpec, the hash of the canonical            *)
(* serialization of a spec.                                                *)
(* SpecSnapshot: createSnapshot and provisionEnvironment writing their    *)
(* state files under working directories.                                  *)
(* SpecSecrets: SecretsBroker, construction and fetchAll.                  *)
(* SpecLoad: loadSpec reading, parsing and validating spec files.          *)
(* SpecPlugins: PluginRegistry, register and run.                          *)
(* SpecDoctor: runDoctor executing the checks of a spec.                   *)
(* SpecResolver, SpecResolverFair: an EnvironmentResolver constructed from *)
(* a base spec and separately given layers, and its validateHierarchy,     *)
(* one loop iteration at a time.                                           *)
(* SpecBreaker: CircuitBreaker, calls through it and the passing of time.  *)
(* SpecTransaction: a Transaction used directly and through                *)
(* TransactionManager.executeWithRollback.                                 *)
(* SpecChanges: the public operations of a ChangeManagementSystem.         *)
(* SpecPipeline: DeploymentPipelineManager, one execution and approveStage.*)
(* SpecIntegrations: IntegrationRegistry with calls that overlap.          *)
(* SpecRetry, SpecRetryFair: one RetryDecorator.execute call.              *)
(*                                                                         *)
(* Each specification moves its own variables and leaves the variables of *)
(* the others at their idle values.                                        *)
(*                                                                         *)
(* A JavaScript object is a TLA+ function whose DOMAIN is the set of its  *)
(* defined properties: an absent (undefined) property is a key that is    *)
(* not in the DOMAIN.  A Map is a sequence of [key, value] records in     *)
(* insertion order.  Environment names are non-empty identifiers.         *)
(***************************************************************************)
EXTENDS Integers, Sequences, FiniteSets, TLC

VARIABLES
  baseSpec,       \* the EnvironmentSpec handed to the EnvironmentManager constructor
  pc,             \* "new" | "building" | "ready": position of the constructor
  built,          \* number of layers of baseSpec.environments already processed
  environments,   \* EnvironmentResolver.environments: the registry Map, in insertion order
  parents,        \* history: per processed layer, the parent spec returned by getHierarchyParentSpec
  result,         \* the last public call and the value it returned
  fpSpecs,        \* the two specs handed to fingerprintSpec
  fpCalls,        \* history: per call of fingerprintSpec, its argument and the value returned
  files,          \* the file system: per path a directory, a file's text, or nothing
  now,            \* the clock read by new Date()
  returned,       \* per working directory, the last createSnapshot call there: its spec and the snapshot returned
  secretsSpec,    \* the EnvironmentSpec handed to the SecretsBroker constructor
  broker,         \* the SecretsBroker: its providers list and the names in secretsProviders
  fetched,        \* the outcome of the last fetchAll
  specFiles,      \* the spec files: per full path a directory, a file's text, or nothing
  loaded,         \* the last loadSpec call: its arguments and its outcome
  hooks,          \* PluginRegistry.hooks: event name -> hooks in registration order
  running,        \* the run(event, context) call in flight, or NoResult
  invocations,    \* hook starts and completions of the call in flight
  doctorSpec,     \* the spec handed to runDoctor, or NoResult
  executions,     \* history: the commands executed so far with what exec did
  doctorResults,  \* runDoctor's results array
  report,         \* the DoctorReport runDoctor returned, or NoResult
  doctorFiles,    \* the .envkit tree under runDoctor's cwd
  resolverBase,   \* the baseSpec argument of new EnvironmentResolver, or NoResult
  resolverHierarchies,\* the hierarchies argument of new EnvironmentResolver
  resolverPc,     \* "idle", "building", "ready", "validating" or "validated"
  resolverBuilt,  \* number of layers the constructor's loop has processed
  resolverEnvironments, \* the resolver's environments Map, in insertion order
  walk,           \* validateHierarchy's loops: entry, current, visited, errors, steps of the while loop
  validation,     \* what validateHierarchy returned, or NoResult
  breaker,        \* the CircuitBreaker's fields (state, counts, lastFailureTime, config), or NoResult
  breakerClock,   \* Date.now()
  pending,        \* number of admitted calls of fn that have not settled
  streak,         \* history: failures of admitted calls since the last success or reset()
  trialSuccesses, \* history: successes recorded since the breaker last became half-open
  lastCall,       \* history: the last operation on the breaker and its outcome
  transaction,    \* the Transaction's fields (active, compensations), or NoResult before begin()
  rollbackCall,   \* the rollback() that found the transaction active: pc, index, errors, caller
  compensated,    \* history: the compensations run so far (index, fn, ok), in the order they ran
  helper,         \* executeWithRollback's call: pc, compensation, how the operation settled, outcome, error
  lastTxnStep,    \* history: the last operation on the transaction and its outcome
  changeRequests, \* the ChangeManagementSystem's changeRequests Map: id to change request
  reviewed,       \* history: the ids for which submitForReview and approveChangeRequest returned true
  pipelines,      \* the DeploymentPipelineManager's pipelines Map: id to pipeline
  deployment,     \* the DeploymentExecution of the executions Map, or NoResult before executePipeline
  runner,         \* where runExecution stands: phase (none, sleep, action, done), stage index, action index
  integrationProviders,\* the types that have a provider in the IntegrationRegistry's providers Map
  integrations,   \* the integrations Map: id to integration object (ref is the object's identity)
  instances,      \* the ids that have an entry in the instances Map
  inflight,       \* the registry's calls that await their provider or instance: op, id, ref of the object held
  lastReturn,     \* history: the last call of the registry that returned or began to wait, and what it returned
  retry,          \* RetryDecorator.execute's call: finalConfig, pc, attempt, delayMs, lastError, result; or NoResult
  retryLog        \* history: what each call of fn settled with (calls) and each delay waited (waits)

managerVars == <<baseSpec, pc, built, environments, parents, result>>
fingerprintVars == <<fpSpecs, fpCalls>>
snapshotVars == <<files, now, returned>>
secretsVars == <<secretsSpec, broker, fetched>>
loadVars == <<specFiles, loaded>>
pluginVars == <<hooks, running, invocations>>
doctorVars == <<doctorSpec, executions, doctorResults, report, doctorFiles>>
resolverVars == <<resolverBase, resolverHierarchies, resolverPc, resolverBuilt, resolverEnvironments, walk, validation>>
breakerVars == <<breaker, breakerClock, pending, streak, trialSuccesses, lastCall>>
transactionVars == <<transaction, rollbackCall, compensated, helper, lastTxnStep>>
changeVars == <<changeRequests, reviewed>>
pipelineVars == <<pipelines, deployment, runner>>
integrationVars == <<integrationProviders, integrations, instances, inflight, lastReturn>>
retryVars == <<retry, retryLog>>

vars == <<managerVars, fingerprintVars, snapshotVars, secretsVars, loadVars, pluginVars, doctorVars, resolverVars, breakerVars, transactionVars, changeVars, pipelineVars, integrationVars, retryVars>>

\* What the manager's operations leave alone.
outsideManager == <<fingerprintVars, snapshotVars, secretsVars, loadVars, pluginVars, doctorVars, resolverVars, breakerVars, transactionVars, changeVars, pipelineVars, integrationVars, retryVars>>
\* What fingerprintSpec leaves alone.
outsideFingerprint == <<managerVars, snapshotVars, secretsVars, loadVars, pluginVars, doctorVars, resolverVars, breakerVars, transactionVars, changeVars, pipelineVars, integrationVars, retryVars>>
\* What createSnapshot and provisionEnvironment leave alone.
outsideSnapshot == <<managerVars, fingerprintVars, secretsVars, loadVars, pluginVars, doctorVars, resolverVars, breakerVars, transactionVars, changeVars, pipelineVars, integrationVars, retryVars>>
\* What the SecretsBroker leaves alone.
outsideSecrets == <<managerVars, fingerprintVars, snapshotVars, loadVars, pluginVars, doctorVars, resolverVars, breakerVars, transactionVars, changeVars, pipelineVars, integrationVars, retryVars>>
\* What loadSpec leaves alone.
outsideLoad == <<managerVars, fingerprintVars, snapshotVars, secretsVars, pluginVars, doctorVars, resolverVars, breakerVars, transactionVars, changeVars, pipelineVars, integrationVars, retryVars>>
\* everything but the plugin registry
outsidePlugins == <<managerVars, fingerprintVars, snapshotVars, secretsVars, loadVars, doctorVars, resolverVars, breakerVars, transactionVars, changeVars, pipelineVars, integrationVars, retryVars>>
\* everything but the doctor
outsideDoctor == <<managerVars, fingerprintVars, snapshotVars, secretsVars, loadVars, pluginVars, resolverVars, breakerVars, transactionVars, changeVars, pipelineVars, integrationVars, retryVars>>
\* everything but the stand-alone resolver
outsideResolver == <<managerVars, fingerprintVars, snapshotVars, secretsVars, loadVars, pluginVars, doctorVars, breakerVars, transactionVars, changeVars, pipelineVars, integrationVars, retryVars>>
\* everything but the circuit breaker
outsideBreaker == <<managerVars, fingerprintVars, snapshotVars, secretsVars, loadVars, pluginVars, doctorVars, resolverVars, transactionVars, changeVars, pipelineVars, integrationVars, retryVars>>
\* everything but the transaction
outsideTransaction == <<managerVars, fingerprintVars, snapshotVars, secretsVars, loadVars, pluginVars, doctorVars, resolverVars, breakerVars, changeVars, pipelineVars, integrationVars, retryVars>>
\* everything but the change management system
outsideChanges == <<managerVars, fingerprintVars, snapshotVars, secretsVars, loadVars, pluginVars, doctorVars, resolverVars, breakerVars, transactionVars, pipelineVars, integrationVars, retryVars>>
\* everything but the deployment pipeline manager
outsidePipeline == <<managerVars, fingerprintVars, snapshotVars, secretsVars, loadVars, pluginVars, doctorVars, resolverVars, breakerVars, transactionVars, changeVars, integrationVars, retryVars>>
\* everything but the integration registry
outsideIntegrations == <<managerVars, fingerprintVars, snapshotVars, secretsVars, loadVars, pluginVars, doctorVars, resolverVars, breakerVars, transactionVars, changeVars, pipelineVars, retryVars>>
\* everything but the retry decorator
outsideRetry == <<managerVars, fingerprintVars, snapshotVars, secretsVars, loadVars, pluginVars, doctorVars, resolverVars, breakerVars, transactionVars, changeVars, pipelineVars, integrationVars>>

(***************************************************************************)
(* Bounds and input domains                                                *)
(***************************************************************************)
MaxLayers == 2

BaseName == "base"
\* A layer may be named like the base or like another layer; a name that no
\* layer of the input declares is an unregistered name for that input.
LayerNames == {"base", "a", "b"}
ExtendsNames == {"base", "a", "b"}
LookupNames == {"base", "a", "b"}

OverridableFields == {"description", "secrets", "toolchains", "policies", "checks"}

S0 == [provider |-> "vault", path |-> "kv/base"]
S1 == [provider |-> "aws", path |-> "kv/one", rotationDays |-> 30]
T0 == [name |-> "node", version |-> "18"]
T2 == [name |-> "node", version |-> "20", cacheKey |-> "n20"]

BaseFull ==
  [name |-> BaseName, description |-> "root", secrets |-> <<S0>>,
   toolchains |-> <<T0>>, policies |-> <<"p0">>, checks |-> <<"c0">>,
   region |-> "eu", backup |-> [enabled |-> TRUE, retentionDays |-> 7]]
BasePartial ==
  [name |-> BaseName, toolchains |-> <<T0>>, policies |-> <<"p0">>]
BaseChoices == {BaseFull, BasePartial}

\* Between them the choices define every overridable field at least once,
\* leave every one undefined at least once, and give the empty string and
\* empty arrays as override values.
Overrides1 == [description |-> "", secrets |-> <<S1>>, policies |-> <<>>]
Overrides2 ==
  [secrets |-> <<>>, toolchains |-> <<T2>>, policies |-> <<"p2">>, checks |-> <<"c2">>]
OverridesChoices == {Overrides1, Overrides2}

(***************************************************************************)
(* Objects and Maps                                                        *)
(***************************************************************************)
Has(obj, f) == f \in DOMAIN obj

\* !!obj.f for a string property: defined and not the empty string.
Truthy(obj, f) == Has(obj, f) /\ obj[f] # ""

\* obj with property f set to v (added when absent).
With(obj, f, v) == (f :> v) @@ obj

Layer(n, e, o) ==
  [name |-> n]
    @@ (IF e = <<>> THEN <<>> ELSE [extends |-> e[1]])
    @@ (IF o = <<>> THEN <<>> ELSE [overrides |-> o[1]])

LayerChoices ==
  { Layer(n, e, o) :
      n \in LayerNames,
      e \in {<<>>} \cup { <<x>> : x \in ExtendsNames },
      o \in {<<>>} \cup { <<x>> : x \in OverridesChoices } }

LayerLists == UNION { [1..n -> LayerChoices] : n \in 0..MaxLayers }

\* Map.prototype.has / get / set on a sequence of [key, value] entries.
MapHas(map, k) == \E i \in 1..Len(map) : map[i].key = k

\* Defined where MapHas(map, k); callers test MapHas first (get gives undefined otherwise).
MapGet(map, k) == map[CHOOSE i \in 1..Len(map) : map[i].key = k].value

MapKeys(map) == [i \in 1..Len(map) |-> map[i].key]

MapValues(map) == [i \in 1..Len(map) |-> map[i].value]

\* Faulty variant: setting an existing key moves the entry to the end.
MapSetMoveToEnd(map, k, v) ==
  LET other(e) == e.key # k
  IN  Append(SelectSeq(map, other), [key |-> k, value |-> v])

MapSet(map, k, v) ==
  IF MapHas(map, k)
    THEN [i \in 1..Len(map) |-> IF map[i].key = k THEN [key |-> k, value |-> v] ELSE map[i]]
    ELSE Append(map, [key |-> k, value |-> v])

(***************************************************************************)
(* EnvironmentResolver                                                     *)
(***************************************************************************)
Range(seq) == { seq[i] : i \in 1..Len(seq) }

\* spec.environments?.find((h) => h.name === name): <<>> when there is none.
FindHierarchy(spec, name) ==
  IF ~Has(spec, "environments") THEN <<>>
  ELSE LET hs == spec.environments
           hit == { i \in 1..Len(hs) : hs[i].name = name }
       IN  IF hit = {} THEN <<>>
           ELSE <<hs[CHOOSE i \in hit : \A j \in hit : i <= j]>>

\* Faulty variant: an overriding array is appended to the parent's array.
RECURSIVE ApplyOverridesConcat(_, _, _)
ApplyOverridesConcat(resolved, overrides, fields) ==
  IF fields = <<>>
    THEN resolved
    ELSE ApplyOverridesConcat(
           IF Has(overrides, Head(fields))
             THEN With(resolved, Head(fields),
                       IF Head(fields) # "description" /\ Has(resolved, Head(fields))
                         THEN resolved[Head(fields)] \o overrides[Head(fields)]
                         ELSE overrides[Head(fields)])
             ELSE resolved,
           overrides, Tail(fields))

RECURSIVE ApplyOverrides(_, _, _)
ApplyOverrides(resolved, overrides, fields) ==
  IF fields = <<>>
    THEN resolved
    ELSE ApplyOverrides(
           IF Has(overrides, Head(fields))
             THEN With(resolved, Head(fields), overrides[Head(fields)])
             ELSE resolved,
           overrides, Tail(fields))

\* Faulty variant: the parent's name is spread over the layer's name.
mergeHierarchySpecParentName(parentSpec, hierarchy) ==
  IF ~Has(hierarchy, "overrides")
    THEN parentSpec
    ELSE ApplyOverrides(parentSpec, hierarchy.overrides,
           <<"description", "secrets", "toolchains", "policies", "checks">>)

\* Faulty variant: only the overridable fields of the parent are copied.
mergeHierarchySpecOverridableOnly(parentSpec, hierarchy) ==
  LET copied == [f \in DOMAIN parentSpec \cap OverridableFields |-> parentSpec[f]]
      resolved == With(copied, "name", hierarchy.name)
  IN  IF ~Has(hierarchy, "overrides")
        THEN resolved
        ELSE ApplyOverrides(resolved, hierarchy.overrides,
               <<"description", "secrets", "toolchains", "policies", "checks">>)

mergeHierarchySpec(parentSpec, hierarchy) ==
  LET resolved == With(parentSpec, "name", hierarchy.name)
  IN  IF ~Has(hierarchy, "overrides")
        THEN resolved
        ELSE ApplyOverrides(resolved, hierarchy.overrides,
               <<"description", "secrets", "toolchains", "policies", "checks">>)

\* Faulty variant: an unregistered extends gives an empty parent instead of the base.
getHierarchyParentSpecNoFallback(map, base, hierarchy) ==
  IF ~Truthy(hierarchy, "extends")
    THEN base
    ELSE IF MapHas(map, hierarchy.extends)
           THEN MapGet(map, hierarchy.extends)
           ELSE <<>>

\* Faulty variant: an extends that is not registered yet is resolved from its
\* declaration (deferred resolution).
getHierarchyParentSpecDeferred(map, base, hierarchy) ==
  IF ~Truthy(hierarchy, "extends")
    THEN base
    ELSE IF MapHas(map, hierarchy.extends)
           THEN MapGet(map, hierarchy.extends)
           ELSE IF FindHierarchy(base, hierarchy.extends) # <<>>
                  THEN mergeHierarchySpec(base, FindHierarchy(base, hierarchy.extends)[1])
                  ELSE base

\* Faulty variant: every layer is merged onto the base, whatever it extends.
getHierarchyParentSpecFlat(map, base, hierarchy) == base

getHierarchyParentSpec(map, base, hierarchy) ==
  IF ~Truthy(hierarchy, "extends")
    THEN base
    ELSE IF MapHas(map, hierarchy.extends)
           THEN MapGet(map, hierarchy.extends)
           ELSE base

resolveHierarchy(map, base, hierarchy) ==
  mergeHierarchySpec(getHierarchyParentSpec(map, base, hierarchy), hierarchy)

\* Faulty variant: the merge writes into the parent object instead of a copy, so
\* the parent's registry entry changes with it.
setHierarchyInPlace(map, base, hierarchy) ==
  LET resolved == resolveHierarchy(map, base, hierarchy)
      parentKey == IF Has(hierarchy, "extends") /\ MapHas(map, hierarchy.extends)
                     THEN hierarchy.extends ELSE base.name
  IN  MapSet(MapSet(map, parentKey, resolved), hierarchy.name, resolved)

setHierarchy(map, base, hierarchy) ==
  MapSet(map, hierarchy.name, resolveHierarchy(map, base, hierarchy))

RECURSIVE resolveAll(_, _, _)
resolveAll(map, base, hierarchies) ==
  IF hierarchies = <<>>
    THEN map
    ELSE resolveAll(setHierarchy(map, base, Head(hierarchies)), base, Tail(hierarchies))

\* The registry a constructor call new EnvironmentResolver(base, hierarchies) builds.
buildEnvironmentHierarchy(base, hierarchies) ==
  resolveAll(MapSet(<<>>, base.name, base), base, hierarchies)

Null == [type |-> "null"]
Undefined == [type |-> "undefined"]

\* Faulty variant: an unknown name is answered with null.
getEnvironmentOrNull(map, name) == IF MapHas(map, name) THEN MapGet(map, name) ELSE Null

getEnvironment(map, name) == IF MapHas(map, name) THEN MapGet(map, name) ELSE Undefined

listEnvironments(map) == MapKeys(map)

getAllEnvironments(map) == MapValues(map)

\* Faulty variant: the walk takes a single extends step (an if for the while).
WalkOnce(map, spec, current, visited) ==
  LET hierarchy == FindHierarchy(spec, current.name)
  IN  IF hierarchy # <<>> /\ Truthy(hierarchy[1], "extends")
           /\ MapHas(map, hierarchy[1].extends)
        THEN [circular |-> hierarchy[1].extends = current.name,
              visited |-> <<current.name>>]
        ELSE [circular |-> FALSE, visited |-> <<current.name>>]

\* Position of the first layer of that name among the declarations, 0 when
\* there is none.
DeclaredAt(spec, name) ==
  IF ~Has(spec, "environments") THEN 0
  ELSE LET hit == { i \in 1..Len(spec.environments) : spec.environments[i].name = name }
       IN  IF hit = {} THEN 0 ELSE CHOOSE i \in hit : \A j \in hit : i <= j

\* Faulty variant: the walk follows an extends only to a name that was declared
\* before the extending layer, as resolution does.
RECURSIVE WalkResolved(_, _, _, _)
WalkResolved(map, spec, current, visited) ==
  IF current.name \in Range(visited)
    THEN [circular |-> TRUE, visited |-> visited]
    ELSE LET seen == Append(visited, current.name)
             hierarchy == FindHierarchy(spec, current.name)
         IN  IF hierarchy # <<>> /\ Truthy(hierarchy[1], "extends")
                  /\ MapHas(map, hierarchy[1].extends)
                  /\ DeclaredAt(spec, hierarchy[1].extends) < DeclaredAt(spec, current.name)
               THEN WalkResolved(map, spec, MapGet(map, hierarchy[1].extends), seen)
               ELSE [circular |-> FALSE, visited |-> seen]

\* The while loop of validateHierarchy for one starting entry: the names
\* visited, in order, and whether a name was met twice.
RECURSIVE Walk(_, _, _, _)
Walk(map, spec, current, visited) ==
  IF current.name \in Range(visited)
    THEN [circular |-> TRUE, visited |-> visited]
    ELSE LET seen == Append(visited, current.name)
             hierarchy == FindHierarchy(spec, current.name)
         IN  IF hierarchy # <<>> /\ Truthy(hierarchy[1], "extends")
               THEN IF MapHas(map, hierarchy[1].extends)
                      THEN Walk(map, spec, MapGet(map, hierarchy[1].extends), seen)
                      ELSE [circular |-> FALSE, visited |-> seen]
               ELSE [circular |-> FALSE, visited |-> seen]

CircularMessage(name) == "Circular dependency detected in environment: " \o name

\* Faulty variant: validation stops at the first circular chain.
RECURSIVE ValidateFromFirstOnly(_, _, _)
ValidateFromFirstOnly(map, i, errors) ==
  IF i > Len(map) \/ errors # <<>>
    THEN errors
    ELSE ValidateFromFirstOnly(map, i + 1,
           IF Walk(map, map[i].value, map[i].value, <<>>).circular
             THEN Append(errors, CircularMessage(map[i].key))
             ELSE errors)

RECURSIVE ValidateFrom(_, _, _)
ValidateFrom(map, i, errors) ==
  IF i > Len(map)
    THEN errors
    ELSE ValidateFrom(map, i + 1,
           IF Walk(map, map[i].value, map[i].value, <<>>).circular
             THEN Append(errors, CircularMessage(map[i].key))
             ELSE errors)

validateHierarchy(map) ==
  LET errors == ValidateFrom(map, 1, <<>>)
  IN  [valid |-> Len(errors) = 0, errors |-> errors]

(***************************************************************************)
(* EnvironmentManager                                                      *)
(***************************************************************************)
\* Faulty variant: both fields are always passed on, as empty arrays when the
\* source does not define them.
promotionHierarchyAlways(sourceEnvironment, from, to) ==
  [name |-> from \o "-to-" \o to,
   extends |-> to,
   overrides |->
     [toolchains |-> IF Has(sourceEnvironment, "toolchains")
                       THEN sourceEnvironment.toolchains ELSE <<>>,
      secrets |-> IF Has(sourceEnvironment, "secrets")
                    THEN sourceEnvironment.secrets ELSE <<>>]]

\* The promotion layer: secrets and toolchains of the source, where defined.
promotionHierarchy(sourceEnvironment, from, to) ==
  [name |-> from \o "-to-" \o to,
   extends |-> to,
   overrides |->
     (IF Has(sourceEnvironment, "toolchains")
        THEN [toolchains |-> sourceEnvironment.toolchains] ELSE <<>>)
     @@ (IF Has(sourceEnvironment, "secrets")
           THEN [secrets |-> sourceEnvironment.secrets] ELSE <<>>)]

\* resolver.getEnvironment(name) || null
OrNull(map, name) == IF MapHas(map, name) THEN MapGet(map, name) ELSE Null

\* Faulty variant: the promotion layer is resolved with the source as base.
promoteEnvironmentOntoSource(map, from, to) ==
  IF ~MapHas(map, from) \/ ~MapHas(map, to)
    THEN Null
    ELSE LET hierarchy == promotionHierarchy(MapGet(map, from), from, to)
         IN  OrNull(buildEnvironmentHierarchy(MapGet(map, from), <<hierarchy>>),
                    hierarchy.name)

\* Faulty variant: the promoted spec is looked up under the source's name.
promoteEnvironmentWrongKey(map, from, to) ==
  IF ~MapHas(map, from) \/ ~MapHas(map, to)
    THEN Null
    ELSE LET hierarchy == promotionHierarchy(MapGet(map, from), from, to)
         IN  OrNull(buildEnvironmentHierarchy(MapGet(map, to), <<hierarchy>>), from)

promoteEnvironment(map, from, to) ==
  IF ~MapHas(map, from) \/ ~MapHas(map, to)
    THEN Null
    ELSE LET sourceEnvironment == MapGet(map, from)
             targetEnvironment == MapGet(map, to)
             hierarchy == promotionHierarchy(sourceEnvironment, from, to)
             resolver == buildEnvironmentHierarchy(targetEnvironment, <<hierarchy>>)
         IN  OrNull(resolver, hierarchy.name)

validateEnvironments(map) == validateHierarchy(map)

\* The manager's lookups delegate to its resolver.
managerGetEnvironment(map, name) == getEnvironment(map, name)

managerListEnvironments(map) == listEnvironments(map)

(***************************************************************************)
(* JSON values and JSON.stringify                                          *)
(*                                                                         *)
(* Where the order of an object's keys matters, a value is a tagged       *)
(* record and an object holds its members as a sequence of [key, value]   *)
(* records in insertion order.                                             *)
(***************************************************************************)
JString(s) == [type |-> "string", value |-> s]
JNumber(n) == [type |-> "number", number |-> n]
JBoolean(b) == [type |-> "boolean", boolean |-> b]
JArray(items) == [type |-> "array", items |-> items]
JObject(members) == [type |-> "object", members |-> members]
Member(k, v) == [key |-> k, value |-> v]

\* Object.keys(obj): the own keys in insertion order.
ObjectKeys(obj) == [i \in 1..Len(obj.members) |-> obj.members[i].key]

HasKey(obj, k) == \E i \in 1..Len(obj.members) : obj.members[i].key = k

\* obj[k] of a key that obj has.
Get(obj, k) == obj.members[CHOOSE i \in 1..Len(obj.members) : obj.members[i].key = k].value

\* The key names of the model in the order of Array.prototype.sort without a
\* comparator (ascending UTF-16 code units).
SortedKeyNames ==
  <<"appliedAt", "backup", "cacheKey", "checks", "createdAt", "description",
    "enabled", "environments", "extends", "fingerprint", "name", "overrides",
    "path", "policies", "provider", "region", "rotationDays", "secrets",
    "spec", "toolchains", "version">>

\* Faulty variant: the keys are left in insertion order.
ArraySortUnsorted(keys) == keys

\* keys.sort()
ArraySort(keys) ==
  LET listed(k) == k \in Range(keys)
  IN  SelectSeq(SortedKeyNames, listed)

\* JSON quoting of a string without characters that need escaping.
Quote(s) == "\"" \o s \o "\""

RECURSIVE Join(_, _)
Join(strings, separator) ==
  IF strings = <<>> THEN ""
  ELSE IF Len(strings) = 1 THEN strings[1]
  ELSE strings[1] \o separator \o Join(Tail(strings), separator)

\* stringify without a replacer, and with an array replacer.
NoReplacer == [kind |-> "none"]
PropertyList(keys) == [kind |-> "list", list |-> keys]

\* The serialization of one value.  With a property list, the members of every
\* object, at every depth, are the listed keys that the object has, in the
\* order of the list; without one, the object's own keys in insertion order.
\* Every element of an array is written.
RECURSIVE SerializeJSONProperty(_, _, _, _)
SerializeJSONProperty(value, replacer, gap, indent) ==
  LET inner == indent \o gap
      open(bracket) == IF gap = "" THEN bracket ELSE bracket \o "\n" \o inner
      close(bracket) == IF gap = "" THEN bracket ELSE "\n" \o indent \o bracket
      separator == IF gap = "" THEN "," ELSE ",\n" \o inner
  IN  CASE value.type = "string" -> Quote(value.value)
        [] value.type = "number" -> ToString(value.number)
        [] value.type = "boolean" -> IF value.boolean THEN "true" ELSE "false"
        [] value.type = "array" ->
             IF value.items = <<>> THEN "[]"
             ELSE open("[")
                  \o Join([i \in 1..Len(value.items) |->
                            SerializeJSONProperty(value.items[i], replacer, gap, inner)],
                          separator)
                  \o close("]")
        [] value.type = "object" ->
             LET present(k) == HasKey(value, k)
                 K == IF replacer.kind = "list"
                        THEN SelectSeq(replacer.list, present)
                        ELSE ObjectKeys(value)
             IN  IF K = <<>> THEN "{}"
                 ELSE open("{")
                      \o Join([i \in 1..Len(K) |->
                                Quote(K[i]) \o (IF gap = "" THEN ":" ELSE ": ")
                                \o SerializeJSONProperty(Get(value, K[i]), replacer, gap, inner)],
                              separator)
                      \o close("}")

RECURSIVE Spaces(_)
Spaces(n) == IF n = 0 THEN "" ELSE " " \o Spaces(n - 1)

\* JSON.stringify(value, replacer, space)
JSONStringify(value, replacer, space) ==
  SerializeJSONProperty(value, replacer, Spaces(space), "")

(***************************************************************************)
(* fingerprintSpec                                                         *)
(***************************************************************************)
\* createHash('sha256').update(text).digest('hex'): the digest stands for
\* the text it was computed from, different texts have different digests.
Sha256Hex(text) == "sha256(" \o text \o ")"

fingerprintSpec(spec) ==
  LET stable == JSONStringify(spec, PropertyList(ArraySort(ObjectKeys(spec))), 0)
  IN  Sha256Hex(stable)

(***************************************************************************)
(* State files: state.ts, createSnapshot, provisionEnvironment             *)
(***************************************************************************)
STATE_DIR == ".envkit"
DIAGNOSTICS_DIR == STATE_DIR \o "/diagnostics"
SNAPSHOT_FILE == STATE_DIR \o "/envkit.lock.json"

\* Faulty variant: the applied state goes to the snapshot's file.
LAST_APPLIED_FILE_OnLock == STATE_DIR \o "/envkit.lock.json"

LAST_APPLIED_FILE == STATE_DIR \o "/last-applied.json"

\* path.join(directory, relativePath)
PathJoin(directory, relativePath) == directory \o "/" \o relativePath

NoFile == [kind |-> "absent"]
Directory == [kind |-> "directory"]
File(text) == [kind |-> "file", text |-> text]

\* fs.mkdir(path, {recursive: true}) of a path that is no file
Mkdir(fs, path) == [fs EXCEPT ![path] = Directory]

ensureStateDirectories(fs, baseDirectory) ==
  Mkdir(Mkdir(fs, PathJoin(baseDirectory, STATE_DIR)),
        PathJoin(baseDirectory, DIAGNOSTICS_DIR))

\* Faulty variant: the data is written with the keys of a snapshot as the
\* property list of JSON.stringify.
writeJsonSnapshotKeys(fs, directory, relativePath, data) ==
  [Mkdir(fs, PathJoin(directory, STATE_DIR))
     EXCEPT ![PathJoin(directory, relativePath)] =
       File(JSONStringify(data, PropertyList(<<"spec", "fingerprint", "createdAt">>), 2))]

\* writeJson of a file directly under <directory>/.envkit: the directory is
\* made, then the file is written, replacing what it held.
writeJson(fs, directory, relativePath, data) ==
  [Mkdir(fs, PathJoin(directory, STATE_DIR))
     EXCEPT ![PathJoin(directory, relativePath)] = File(JSONStringify(data, NoReplacer, 2))]

\* new Date().toISOString() at clock reading t, t below ten
ToISOString(t) == "2024-01-01T00:00:0" \o ToString(t) \o ".000Z"

\* Faulty variant: the fingerprint is taken of the spec together with the time.
snapshotFingerprintingTime(spec, t) ==
  JObject(<<Member("spec", spec),
            Member("fingerprint",
                   JString(fingerprintSpec(
                     JObject(Append(spec.members,
                                    Member("createdAt", JString(ToISOString(t)))))))),
            Member("createdAt", JString(ToISOString(t)))>>)

\* The Snapshot object that createSnapshot builds at clock reading t.
snapshot(spec, t) ==
  JObject(<<Member("spec", spec),
            Member("fingerprint", JString(fingerprintSpec(spec))),
            Member("createdAt", JString(ToISOString(t)))>>)

\* spec[k] ?? []
OrEmptyArray(spec, k) == IF HasKey(spec, k) THEN Get(spec, k) ELSE JArray(<<>>)

\* The state object that provisionEnvironment builds at clock reading t.
appliedState(spec, t) ==
  JObject(<<Member("appliedAt", JString(ToISOString(t))),
            Member("toolchains", OrEmptyArray(spec, "toolchains")),
            Member("secrets", OrEmptyArray(spec, "secrets")),
            Member("policies", OrEmptyArray(spec, "policies")),
            Member("name", Get(spec, "name"))>>)

(***************************************************************************)
(* SecretsBroker                                                           *)
(***************************************************************************)
\* `${provider.provider}:${provider.path}`
SecretKey(secret) == secret.provider \o ":" \o secret.path

PlaceholderSecret(secret) == "placeholder-secret-for-" \o SecretKey(secret)

\* What a configured provider's fetchSecret(path) resolves with.
FetchedSecret(secret) == "secret-of-" \o secret.provider \o "-at-" \o secret.path

\* fetchAll over the entries from position i on.  outcomes[i] tells whether
\* the fetchSecret call for entry i, where one is made, resolves or rejects;
\* a rejection is logged and rethrown.
RECURSIVE fetchFrom(_, _, _, _, _)
fetchFrom(providers, secretsProviders, outcomes, i, results) ==
  IF i > Len(providers) THEN [status |-> "resolved", value |-> results]
  ELSE LET provider == providers[i]
       IN  IF provider.provider \in secretsProviders
             THEN IF outcomes[i] = "rejects"
                    THEN [status |-> "rejected", at |-> i]
                    ELSE fetchFrom(providers, secretsProviders, outcomes, i + 1,
                                   MapSet(results, SecretKey(provider), FetchedSecret(provider)))
             ELSE fetchFrom(providers, secretsProviders, outcomes, i + 1,
                            MapSet(results, SecretKey(provider), PlaceholderSecret(provider)))

fetchAll(providers, secretsProviders, outcomes) ==
  fetchFrom(providers, secretsProviders, outcomes, 1, <<>>)

(***************************************************************************)
(* Transaction and TransactionManager                                      *)
(***************************************************************************)
\* new Transaction(id)
NewTransaction == [active |-> TRUE, compensations |-> <<>>]

\* registerCompensation(fn) on an active transaction
registerCompensation(t, fn) == [t EXCEPT !.compensations = Append(@, fn)]

\* commit() on an active transaction
commit(t) == [t EXCEPT !.active = FALSE, !.compensations = <<>>]

NoRollback == [pc |-> "none", index |-> 0, errors |-> <<>>, caller |-> "none"]

\* rollback() on an active transaction, up to the first turn of its loop
rollback(t, caller) ==
  [pc |-> "loop", index |-> Len(t.compensations), errors |-> <<>>, caller |-> caller]

\* Faulty variant: the first compensation that fails ends the loop.
rollbackTurnGivingUp(call, fn, ok) ==
  IF ok THEN [call EXCEPT !.index = @ - 1]
        ELSE [call EXCEPT !.index = 0, !.errors = Append(@, fn)]

\* One turn of rollback's loop: compensation fn was awaited and resolved
\* (ok) or rejected.
rollbackTurn(call, fn, ok) ==
  IF ok THEN [call EXCEPT !.index = @ - 1]
        ELSE [call EXCEPT !.index = @ - 1, !.errors = Append(@, fn)]

NoHelper ==
  [pc |-> "none", compensation |-> "undefined", operation |-> "none",
   outcome |-> "none", error |-> "none"]

\* What executeWithRollback does once operation has resolved: the supplied
\* compensation is registered, the transaction is committed and the result
\* returned; what registerCompensation or commit throws goes to the catch
\* block, where rollback() finds the transaction inactive and the error is
\* rethrown.
AfterOperation(t, h) ==
  IF ~t.active
    THEN [t |-> t,
          h |-> [h EXCEPT !.pc = "done", !.operation = "resolved",
                          !.outcome = "rejected",
                          !.error = IF h.compensation # "undefined"
                                      THEN "inactive-transaction"
                                      ELSE "already-completed"]]
    ELSE [t |-> commit(IF h.compensation # "undefined"
                         THEN registerCompensation(t, h.compensation)
                         ELSE t),
          h |-> [h EXCEPT !.pc = "done", !.operation = "resolved",
                          !.outcome = "resolved"]]

(***************************************************************************)
(* ChangeManagementSystem                                                  *)
(***************************************************************************)
\* { ...a, ...b }
Spread(a, b) == b @@ a

\* createChangeRequest(request) with the id it made up: status and comments
\* are set after the spread of request.
createChangeRequest(requests, id, request) ==
  (id :> Spread(request, [id |-> id, status |-> "draft"])) @@ requests

\* updateChangeRequest(id, updates)
updateChangeRequest(requests, id, updates) ==
  IF id \notin DOMAIN requests
    THEN [returned |-> FALSE, requests |-> requests]
    ELSE [returned |-> TRUE,
          requests |-> [requests EXCEPT ![id] = Spread(requests[id], updates)]]

\* submitForReview, approveChangeRequest, rejectChangeRequest and
\* implementChangeRequest: a request whose status is from gets status to, and
\* reviewedBy where the operation sets it; any other request, or none, makes
\* the operation return false.
moveFrom(requests, id, from, to, by) ==
  IF id \notin DOMAIN requests \/ requests[id].status # from
    THEN [returned |-> FALSE, requests |-> requests]
    ELSE [returned |-> TRUE,
          requests |-> [requests EXCEPT ![id] = Spread(Spread(@, [status |-> to]), by)]]

(***************************************************************************)
(* DeploymentPipelineManager                                               *)
(***************************************************************************)
NoRunner == [phase |-> "none", stage |-> 0, action |-> 0]

\* The execution record executePipeline stores: every stage and action
\* pending.  A stage of a pipeline is given by its name, its requiresApproval
\* flag and the number of its actions.
NewExecution(pipeline, environment) ==
  [status |-> "pending", environment |-> environment,
   stages |-> [i \in 1..Len(pipeline.stages) |->
                 [stageName |-> pipeline.stages[i].name, status |-> "pending",
                  actions |-> [j \in 1..pipeline.stages[i].actions |-> "pending"]]],
   approvals |-> <<>>]

\* The end of runExecution: completed when every stage is, failed otherwise.
finishExecution(d) ==
  [d EXCEPT !.status = IF \A i \in 1..Len(d.stages) : d.stages[i].status = "completed"
                         THEN "completed" ELSE "failed"]

\* runSingleAction up to its await of the executor, for action j of stage i.
runSingleAction(d, i, j) ==
  [d |-> [d EXCEPT !.stages[i].actions[j] = "running"],
   r |-> [phase |-> "action", stage |-> i, action |-> j]]

\* runStageExecution up to its first await: a stage that requires approval
\* is set back to pending and a second is slept; any other stage goes on to
\* its first action.
runStageExecution(d, pipeline, i) ==
  IF pipeline.stages[i].requiresApproval
    THEN [d |-> [d EXCEPT !.stages[i].status = "pending"],
          r |-> [phase |-> "sleep", stage |-> i, action |-> 0]]
    ELSE runSingleAction([d EXCEPT !.stages[i].status = "running"], i, 1)

\* runExecution's loop after stage i has returned shouldContinue.
afterStage(d, pipeline, i, shouldContinue) ==
  IF shouldContinue /\ i < Len(pipeline.stages)
    THEN runStageExecution(d, pipeline, i + 1)
    ELSE [d |-> finishExecution(d), r |-> [phase |-> "done", stage |-> i, action |-> 0]]

\* The executor's result for action j of stage i has arrived: the next
\* action of the stage begins, or the stage is completed or failed and
\* runExecution's loop goes on or breaks.
afterAction(d, pipeline, i, j, succeeded) ==
  LET settled == [d EXCEPT !.stages[i].actions[j] =
                     IF succeeded THEN "completed" ELSE "failed"]
  IN  IF ~succeeded
        THEN afterStage([settled EXCEPT !.stages[i].status = "failed"], pipeline, i, FALSE)
        ELSE IF j < Len(d.stages[i].actions)
               THEN runSingleAction(settled, i, j + 1)
               ELSE afterStage([settled EXCEPT !.stages[i].status = "completed"],
                               pipeline, i, TRUE)

\* The first stage execution named stageName, as Array.prototype.find gives
\* it; 0 when there is none.
FindStage(d, stageName) ==
  IF \E i \in 1..Len(d.stages) : d.stages[i].stageName = stageName
    THEN CHOOSE i \in 1..Len(d.stages) :
           /\ d.stages[i].stageName = stageName
           /\ \A k \in 1..(i - 1) : d.stages[k].stageName # stageName
    ELSE 0

\* approveStage(executionId, stageName, approvedBy) on execution d
approveStage(d, stageName) ==
  LET i == FindStage(d, stageName)
  IN  IF i = 0 \/ d.stages[i].status # "pending"
        THEN [returned |-> FALSE, d |-> d]
        ELSE [returned |-> TRUE,
              d |-> [d EXCEPT !.approvals = Append(@, stageName),
                              !.stages[i].status = "running"]]

(***************************************************************************)
(* IntegrationRegistry                                                     *)
(***************************************************************************)
\* The identity of an object made now: one that no integration in the Map
\* has and no pending call holds.
FreshRef(map, awaited) ==
  LET used == { map[id].ref : id \in DOMAIN map }
                \cup { awaited[k].ref : k \in 1..Len(awaited) }
  IN  CHOOSE n \in 1..(Cardinality(used) + 1) :
        /\ n \notin used
        /\ \A m \in 1..(n - 1) : m \in used

\* seq without its k-th element
RemoveAt(seq, k) == SubSeq(seq, 1, k - 1) \o SubSeq(seq, k + 1, Len(seq))

\* registerIntegration after a valid validateConfig: a new object is stored
\* under config.id.
storeIntegration(map, awaited, config) ==
  (config.id :> [ref |-> FreshRef(map, awaited), status |-> config.status,
                 name |-> config.name]) @@ map

\* updateIntegration(id, updates): a new object replaces the stored one.
updateIntegration(map, awaited, id, updates) ==
  IF id \notin DOMAIN map
    THEN map
    ELSE [map EXCEPT ![id] = Spread(Spread(@, updates),
                                    [ref |-> FreshRef(map, awaited)])]

\* integration.status = status on the object ref, which the Map holds under
\* id or holds no longer.
setStatus(map, id, ref, status) ==
  IF id \in DOMAIN map /\ map[id].ref = ref
    THEN [map EXCEPT ![id].status = status]
    ELSE map

\* disposeIntegration after dispose() resolved: the integration under id now,
\* if any, becomes inactive.
setInactive(map, id) ==
  IF id \in DOMAIN map THEN [map EXCEPT ![id].status = "inactive"] ELSE map

(***************************************************************************)
(* Specification                                                           *)
(***************************************************************************)
Hierarchies(base) == IF Has(base, "environments") THEN base.environments ELSE <<>>

NoResult == [op |-> "none"]

\* No EnvironmentManager is in use.
ManagerIdle ==
  /\ baseSpec = <<>>
  /\ pc = "idle"
  /\ built = 0
  /\ environments = <<>>
  /\ parents = <<>>
  /\ result = NoResult

\* fingerprintSpec is not in use.
FingerprintIdle ==
  /\ fpSpecs = <<>>
  /\ fpCalls = <<>>

\* No state file is written.
SnapshotIdle ==
  /\ files = <<>>
  /\ now = 0
  /\ returned = <<>>

\* No SecretsBroker is in use.
SecretsIdle ==
  /\ secretsSpec = <<>>
  /\ broker = NoResult
  /\ fetched = NoResult

\* No spec file is written or loaded.
LoadIdle ==
  /\ specFiles = <<>>
  /\ loaded = NoResult

\* no plugin registry in use
PluginsIdle ==
  /\ hooks = <<>>
  /\ running = NoResult
  /\ invocations = <<>>

\* runDoctor is not running
DoctorIdle ==
  /\ doctorSpec = NoResult
  /\ executions = <<>>
  /\ doctorResults = <<>>
  /\ report = NoResult
  /\ doctorFiles = <<>>

\* no stand-alone resolver
ResolverIdle ==
  /\ resolverBase = NoResult
  /\ resolverHierarchies = <<>>
  /\ resolverPc = "idle"
  /\ resolverBuilt = 0
  /\ resolverEnvironments = <<>>
  /\ walk = NoResult
  /\ validation = NoResult

\* no circuit breaker
BreakerIdle ==
  /\ breaker = NoResult
  /\ breakerClock = 1
  /\ pending = 0
  /\ streak = 0
  /\ trialSuccesses = 0
  /\ lastCall = NoResult

\* No transaction has begun.
TransactionIdle ==
  /\ transaction = NoResult
  /\ rollbackCall = NoRollback
  /\ compensated = <<>>
  /\ helper = NoHelper
  /\ lastTxnStep = NoResult

\* A ChangeManagementSystem with no change request.
ChangesIdle ==
  /\ changeRequests = <<>>
  /\ reviewed = [submitted |-> {}, approved |-> {}]

\* A DeploymentPipelineManager with no pipeline and no execution.
PipelineIdle ==
  /\ pipelines = <<>>
  /\ deployment = NoResult
  /\ runner = NoRunner

\* An IntegrationRegistry with no provider, integration or instance.
IntegrationsIdle ==
  /\ integrationProviders = {}
  /\ integrations = <<>>
  /\ instances = {}
  /\ inflight = <<>>
  /\ lastReturn = NoResult

\* No RetryDecorator.execute call has been made.
RetryIdle ==
  /\ retry = NoResult
  /\ retryLog = [calls |-> <<>>, waits |-> <<>>]

Init ==
  /\ \E b \in BaseChoices, ls \in LayerLists :
       baseSpec \in {With(b, "environments", ls)} \cup (IF ls = <<>> THEN {b} ELSE {})
  /\ pc = "new"
  /\ built = 0
  /\ environments = <<>>
  /\ parents = <<>>
  /\ result = NoResult
  /\ FingerprintIdle
  /\ SnapshotIdle
  /\ SecretsIdle
  /\ LoadIdle
  /\ PluginsIdle
  /\ DoctorIdle
  /\ ResolverIdle
  /\ BreakerIdle
  /\ TransactionIdle
  /\ ChangesIdle
  /\ PipelineIdle
  /\ IntegrationsIdle
  /\ RetryIdle

\* new EnvironmentManager(baseSpec): the registry is seeded with the base.
Construct ==
  /\ pc = "new"
  /\ environments' = MapSet(environments, baseSpec.name, baseSpec)
  /\ pc' = IF Hierarchies(baseSpec) = <<>> THEN "ready" ELSE "building"
  /\ UNCHANGED <<baseSpec, built, parents, result>>
  /\ UNCHANGED outsideManager

\* One iteration of the constructor's loop over the layers.
ResolveLayer ==
  /\ pc = "building"
  /\ LET hierarchy == Hierarchies(baseSpec)[built + 1]
     IN  /\ environments' = setHierarchy(environments, baseSpec, hierarchy)
         /\ parents' = Append(parents, getHierarchyParentSpec(environments, baseSpec, hierarchy))
  /\ built' = built + 1
  /\ pc' = IF built + 1 = Len(Hierarchies(baseSpec)) THEN "ready" ELSE "building"
  /\ UNCHANGED <<baseSpec, result>>
  /\ UNCHANGED outsideManager

\* manager.validateEnvironments()
ValidateEnvironments ==
  /\ pc = "ready"
  /\ result = NoResult
  /\ result' = [op |-> "validateEnvironments", value |-> validateEnvironments(environments)]
  /\ UNCHANGED <<baseSpec, pc, built, environments, parents>>
  /\ UNCHANGED outsideManager

\* Faulty variant: the promoted spec is also stored in the manager's registry.
PromoteEnvironmentRegistering ==
  /\ pc = "ready"
  /\ result = NoResult
  /\ \E from \in LookupNames, to \in LookupNames :
       LET promoted == promoteEnvironment(environments, from, to)
       IN  /\ result' = [op |-> "promoteEnvironment", from |-> from, to |-> to,
                         value |-> promoted]
           /\ environments' = IF promoted = Null THEN environments
                               ELSE MapSet(environments, promoted.name, promoted)
  /\ UNCHANGED <<baseSpec, pc, built, parents>>
  /\ UNCHANGED outsideManager

\* manager.promoteEnvironment(from, to)
PromoteEnvironment ==
  /\ pc = "ready"
  /\ result = NoResult
  /\ \E from \in LookupNames, to \in LookupNames :
       result' = [op |-> "promoteEnvironment", from |-> from, to |-> to,
                  value |-> promoteEnvironment(environments, from, to)]
  /\ UNCHANGED <<baseSpec, pc, built, environments, parents>>
  /\ UNCHANGED outsideManager

\* manager.getEnvironment(name)
GetEnvironment ==
  /\ pc = "ready"
  /\ result = NoResult
  /\ \E name \in LookupNames :
       result' = [op |-> "getEnvironment", name |-> name,
                  value |-> managerGetEnvironment(environments, name)]
  /\ UNCHANGED <<baseSpec, pc, built, environments, parents>>
  /\ UNCHANGED outsideManager

\* manager.listEnvironments()
ListEnvironments ==
  /\ pc = "ready"
  /\ result = NoResult
  /\ result' = [op |-> "listEnvironments", value |-> managerListEnvironments(environments)]
  /\ UNCHANGED <<baseSpec, pc, built, environments, parents>>
  /\ UNCHANGED outsideManager

\* resolver.getAllEnvironments()
GetAllEnvironments ==
  /\ pc = "ready"
  /\ result = NoResult
  /\ result' = [op |-> "getAllEnvironments", value |-> getAllEnvironments(environments)]
  /\ UNCHANGED <<baseSpec, pc, built, environments, parents>>
  /\ UNCHANGED outsideManager

\* The caller takes the returned value; the manager is ready for the next call.
Return ==
  /\ pc = "ready"
  /\ result # NoResult
  /\ result' = NoResult
  /\ UNCHANGED <<baseSpec, pc, built, environments, parents>>
  /\ UNCHANGED outsideManager

Next ==
  \/ Construct
  \/ ResolveLayer
  \/ ValidateEnvironments
  \/ PromoteEnvironment
  \/ GetEnvironment
  \/ ListEnvironments
  \/ GetAllEnvironments
  \/ Return

Spec == Init /\ [][Next]_vars

(***************************************************************************)
(* SpecFingerprint: calls of fingerprintSpec on two specs                  *)
(***************************************************************************)
MaxCalls == 2

NodeV18 == JObject(<<Member("name", JString("node")), Member("version", JString("18"))>>)
NodeV20 == JObject(<<Member("name", JString("node")), Member("version", JString("20"))>>)
NodeV18VersionFirst ==
  JObject(<<Member("version", JString("18")), Member("name", JString("node"))>>)
VaultA == JObject(<<Member("provider", JString("vault")), Member("path", JString("kv/a"))>>)
VaultB == JObject(<<Member("provider", JString("vault")), Member("path", JString("kv/b"))>>)
VaultA30 ==
  JObject(<<Member("provider", JString("vault")), Member("path", JString("kv/a")),
            Member("rotationDays", JNumber(30))>>)
VaultA60 ==
  JObject(<<Member("provider", JString("vault")), Member("path", JString("kv/a")),
            Member("rotationDays", JNumber(60))>>)
DevOnBase == JObject(<<Member("name", JString("dev")), Member("extends", JString("base"))>>)
DevOnProd == JObject(<<Member("name", JString("dev")), Member("extends", JString("prod"))>>)
DevOverriding ==
  JObject(<<Member("name", JString("dev")), Member("extends", JString("base")),
            Member("overrides", JObject(<<Member("policies", JArray(<<JString("p")>>))>>))>>)

NameX == Member("name", JString("x"))

\* The members of the specs fingerprinted, before their keys are reordered.
FingerprintContents ==
  { <<NameX>>,
    <<Member("name", JString("y"))>>,
    <<NameX, Member("description", JString("d"))>>,
    <<NameX, Member("toolchains", JArray(<<NodeV18>>))>>,
    <<NameX, Member("toolchains", JArray(<<NodeV20>>))>>,
    <<NameX, Member("toolchains", JArray(<<NodeV18VersionFirst>>))>>,
    <<NameX, Member("secrets", JArray(<<VaultA>>))>>,
    <<NameX, Member("secrets", JArray(<<VaultB>>))>>,
    <<NameX, Member("secrets", JArray(<<VaultA30>>))>>,
    <<NameX, Member("secrets", JArray(<<VaultA60>>))>>,
    <<NameX, Member("environments", JArray(<<DevOnBase>>))>>,
    <<NameX, Member("environments", JArray(<<DevOnProd>>))>>,
    <<NameX, Member("environments", JArray(<<DevOverriding>>))>>,
    <<NameX, Member("description", JString("d")), Member("toolchains", JArray(<<>>))>> }

\* The objects with the given members, in every insertion order.
Orderings(members) ==
  { JObject([i \in 1..Len(members) |-> members[p[i]]]) :
      p \in Permutations(1..Len(members)) }

FingerprintSpecs == UNION { Orderings(members) : members \in FingerprintContents }

InitFingerprint ==
  /\ fpSpecs \in FingerprintSpecs \X FingerprintSpecs
  /\ fpCalls = <<>>
  /\ ManagerIdle
  /\ SnapshotIdle
  /\ SecretsIdle
  /\ LoadIdle
  /\ PluginsIdle
  /\ DoctorIdle
  /\ ResolverIdle
  /\ BreakerIdle
  /\ TransactionIdle
  /\ ChangesIdle
  /\ PipelineIdle
  /\ IntegrationsIdle
  /\ RetryIdle

\* fingerprintSpec(spec) on one of the two specs
FingerprintSpec ==
  /\ Len(fpCalls) < MaxCalls
  /\ \E i \in 1..2 :
       fpCalls' = Append(fpCalls, [spec |-> fpSpecs[i],
                                   fingerprint |-> fingerprintSpec(fpSpecs[i])])
  /\ UNCHANGED fpSpecs
  /\ UNCHANGED outsideFingerprint

NextFingerprint == FingerprintSpec

SpecFingerprint == InitFingerprint /\ [][NextFingerprint]_vars

(***************************************************************************)
(* SpecSnapshot: snapshots and provisioning in two working directories     *)
(***************************************************************************)
MaxClock == 2

Cwds == {"/w1", "/w2"}

Paths ==
  { PathJoin(cwd, relativePath) :
      cwd \in Cwds,
      relativePath \in {STATE_DIR, DIAGNOSTICS_DIR, SNAPSHOT_FILE, LAST_APPLIED_FILE} }

SnapshotSpecs ==
  { JObject(<<NameX>>),
    JObject(<<NameX, Member("toolchains", JArray(<<NodeV20>>))>>),
    JObject(<<Member("name", JString("y")),
              Member("description", JString("d")),
              Member("secrets", JArray(<<VaultA30>>)),
              Member("policies", JArray(<<JString("baseline.rego")>>))>>) }

InitSnapshot ==
  /\ files = [path \in Paths |-> NoFile]
  /\ now = 0
  /\ returned = [cwd \in Cwds |-> NoResult]
  /\ ManagerIdle
  /\ FingerprintIdle
  /\ SecretsIdle
  /\ LoadIdle
  /\ PluginsIdle
  /\ DoctorIdle
  /\ ResolverIdle
  /\ BreakerIdle
  /\ TransactionIdle
  /\ ChangesIdle
  /\ PipelineIdle
  /\ IntegrationsIdle
  /\ RetryIdle

\* createSnapshot(spec, {cwd})
CreateSnapshot ==
  /\ \E spec \in SnapshotSpecs, cwd \in Cwds :
       LET created == snapshot(spec, now)
       IN  /\ files' = writeJson(ensureStateDirectories(files, cwd), cwd, SNAPSHOT_FILE, created)
           /\ returned' = [returned EXCEPT ![cwd] = [spec |-> spec, snapshot |-> created]]
  /\ UNCHANGED now
  /\ UNCHANGED outsideSnapshot

\* provisionEnvironment(spec, {cwd})
ProvisionEnvironment ==
  /\ \E spec \in SnapshotSpecs, cwd \in Cwds :
       files' = writeJson(ensureStateDirectories(files, cwd), cwd, LAST_APPLIED_FILE,
                          appliedState(spec, now))
  /\ UNCHANGED <<now, returned>>
  /\ UNCHANGED outsideSnapshot

\* Time passes between two calls.
Tick ==
  /\ now < MaxClock
  /\ now' = now + 1
  /\ UNCHANGED <<files, returned>>
  /\ UNCHANGED outsideSnapshot

NextSnapshot ==
  \/ CreateSnapshot
  \/ ProvisionEnvironment
  \/ Tick

SpecSnapshot == InitSnapshot /\ [][NextSnapshot]_vars

(***************************************************************************)
(* SpecSecrets: a SecretsBroker is constructed and asked for its secrets   *)
(***************************************************************************)
MaxSecrets == 2

\* provider and path are strings without further constraint.
SecretChoices ==
  { [provider |-> "vault", path |-> "kv/a"],
    [provider |-> "vault", path |-> "kv/b"],
    [provider |-> "vault", path |-> "kv/a", rotationDays |-> 30],
    [provider |-> "aws", path |-> "kv/a"],
    [provider |-> "a", path |-> "b:c"],
    [provider |-> "a:b", path |-> "c"] }

SecretLists == UNION { [1..n -> SecretChoices] : n \in 0..MaxSecrets }

\* The providers that options.providers or the process environment configure.
ConfigurableProviders == {"vault", "aws"}

InitSecrets ==
  /\ \E list \in SecretLists :
       secretsSpec \in {[name |-> "x", secrets |-> list]}
                        \cup (IF list = <<>> THEN {[name |-> "x"]} ELSE {})
  /\ broker = NoResult
  /\ fetched = NoResult
  /\ ManagerIdle
  /\ FingerprintIdle
  /\ SnapshotIdle
  /\ LoadIdle
  /\ PluginsIdle
  /\ DoctorIdle
  /\ ResolverIdle
  /\ BreakerIdle
  /\ TransactionIdle
  /\ ChangesIdle
  /\ PipelineIdle
  /\ IntegrationsIdle
  /\ RetryIdle

\* new SecretsBroker(spec, options)
ConstructBroker ==
  /\ broker = NoResult
  /\ \E configured \in SUBSET ConfigurableProviders :
       broker' = [providers |-> IF Has(secretsSpec, "secrets") THEN secretsSpec.secrets ELSE <<>>,
                  secretsProviders |-> configured]
  /\ UNCHANGED <<secretsSpec, fetched>>
  /\ UNCHANGED outsideSecrets

\* broker.fetchAll()
FetchAll ==
  /\ broker # NoResult
  /\ fetched = NoResult
  /\ \E outcomes \in [1..Len(broker.providers) -> {"resolves", "rejects"}] :
       fetched' = fetchAll(broker.providers, broker.secretsProviders, outcomes)
  /\ UNCHANGED <<secretsSpec, broker>>
  /\ UNCHANGED outsideSecrets

\* The caller takes the outcome; the broker can be asked again.
FetchReturn ==
  /\ fetched # NoResult
  /\ fetched' = NoResult
  /\ UNCHANGED <<secretsSpec, broker>>
  /\ UNCHANGED outsideSecrets

NextSecrets ==
  \/ ConstructBroker
  \/ FetchAll
  \/ FetchReturn

SpecSecrets == InitSecrets /\ [][NextSecrets]_vars

(***************************************************************************)
(* loadSpec                                                                *)
(***************************************************************************)
JNull == [type |-> "null"]

\* The values that the texts of the spec files stand for: well-formed specs
\* and malformed ones.
LoadableValues ==
  { JObject(<<NameX>>),
    JObject(<<NameX, Member("toolchains", JArray(<<NodeV20>>))>>),
    JObject(<<Member("description", JString("Missing name"))>>),
    JObject(<<Member("name", JString(""))>>),
    JObject(<<Member("name", JNumber(5))>>),
    JObject(<<Member("name", JArray(<<JString("x")>>))>>),
    JArray(<<>>),
    JArray(<<JObject(<<NameX>>)>>),
    JString("x") }

\* The texts JSON.parse accepts in the model: the compact and the indented
\* serialization of every value of the universe, each with its value.
ParseTable(universe) ==
  { [text |-> JSONStringify(v, NoReplacer, space), value |-> v] :
      v \in universe, space \in {0, 2} }

LoadableTexts == ParseTable(LoadableValues)

\* JSON.parse(text) for the texts of the model: a text is parsed to the value
\* that it is the compact or the indented serialization of, and is a syntax
\* error when it is the serialization of none.
JSONParse(text, table) ==
  IF \E entry \in table : entry.text = text
    THEN [ok |-> TRUE, value |-> (CHOOSE entry \in table : entry.text = text).value]
    ELSE [ok |-> FALSE]

\* Texts that are no JSON, with what parse() of the yaml package makes of
\* them: a value, or a syntax error.
YamlTexts ==
  { [text |-> "name: relative-test", ok |-> TRUE,
     value |-> JObject(<<Member("name", JString("relative-test"))>>)],
    [text |-> "description: Missing name", ok |-> TRUE,
     value |-> JObject(<<Member("description", JString("Missing name"))>>)],
    [text |-> "name: 5", ok |-> TRUE, value |-> JObject(<<Member("name", JNumber(5))>>)],
    [text |-> "name:", ok |-> TRUE, value |-> JObject(<<Member("name", JNull)>>)],
    [text |-> "- name: x", ok |-> TRUE, value |-> JArray(<<JObject(<<NameX>>)>>)],
    [text |-> "", ok |-> TRUE, value |-> JNull],
    [text |-> "invalid: yaml: content:", ok |-> FALSE] }

\* A text that neither parser accepts as it stands in a .json file.
InvalidJsonText == "{ invalid json }"

\* parse() of the yaml package: JSON texts are YAML.
parseYaml(text) ==
  IF \E y \in YamlTexts : y.text = text
    THEN LET y == CHOOSE y \in YamlTexts : y.text = text
         IN  IF y.ok THEN [ok |-> TRUE, value |-> y.value] ELSE [ok |-> FALSE]
    ELSE JSONParse(text, LoadableTexts)

\* A spec path with what path.isAbsolute and path.extname say of it.
SpecPath(p, abs, ext) == [path |-> p, absolute |-> abs, extension |-> ext]

Resolved(value) == [status |-> "resolved", value |-> value]
Rejected(code) == [status |-> "rejected", code |-> code]

\* createEnvkitError(code, ...)
createEnvkitError(code) == Rejected("envkit/" \o code)

\* parseContent: the value, or the error thrown.
parseContent(raw, specPath) ==
  LET parsed == IF specPath.extension = ".json"
                  THEN JSONParse(raw, LoadableTexts)
                  ELSE parseYaml(raw)
  IN  IF parsed.ok THEN Resolved(parsed.value)
      ELSE createEnvkitError("spec_parse_error")

\* !value
Falsy(value) ==
  \/ value.type = "null"
  \/ value.type = "string" /\ value.value = ""
  \/ value.type = "number" /\ value.number = 0

isObject(value) == value.type = "object"

\* Faulty variant: any truthy name is accepted.
validateSpecAnyName(spec) ==
  IF ~isObject(spec) THEN createEnvkitError("spec_invalid")
  ELSE IF ~HasKey(spec, "name") \/ Falsy(Get(spec, "name"))
    THEN createEnvkitError("spec_invalid")
  ELSE Resolved(spec)

\* validateSpec: the spec, or the error thrown.
validateSpec(spec) ==
  IF ~isObject(spec) THEN createEnvkitError("spec_invalid")
  ELSE IF \/ ~HasKey(spec, "name")
          \/ Falsy(Get(spec, "name"))
          \/ Get(spec, "name").type # "string"
    THEN createEnvkitError("spec_invalid")
  ELSE Resolved(spec)

\* fs.readFile(fullPath, 'utf-8'): the text, or the error of the file system.
readFile(fs, fullPath) ==
  IF fs[fullPath] = NoFile THEN Rejected("ENOENT")
  ELSE IF fs[fullPath] = Directory THEN Rejected("EISDIR")
  ELSE Resolved(fs[fullPath].text)

\* loadSpec(specPath, {cwd}): every error of the try block passes through the
\* catch, which replaces an ENOENT error and rethrows any other.
loadSpec(fs, specPath, cwd) ==
  LET fullPath == IF specPath.absolute THEN specPath.path ELSE PathJoin(cwd, specPath.path)
      raw == readFile(fs, fullPath)
      parsed == IF raw.status = "rejected" THEN raw ELSE parseContent(raw.value, specPath)
      outcome == IF parsed.status = "rejected" THEN parsed ELSE validateSpec(parsed.value)
  IN  IF outcome.status = "rejected" /\ outcome.code = "ENOENT"
        THEN createEnvkitError("spec_not_found")
        ELSE outcome

(***************************************************************************)
(* SpecLoad: spec files are written, then loaded                           *)
(***************************************************************************)
JsonFile == SpecPath("/w1/env.json", TRUE, ".json")
YamlFile == SpecPath("env.yaml", FALSE, ".yaml")
SpecPaths == {JsonFile, YamlFile}

\* The full paths that the spec paths resolve to.
SpecFullPaths == {"/w1/env.json", "/w1/env.yaml", "/w2/env.yaml"}

\* What a spec file may hold: a serialized value, a YAML text, or a text that
\* is no JSON.
SpecTexts ==
  { JSONStringify(v, NoReplacer, 0) : v \in LoadableValues }
    \cup { y.text : y \in YamlTexts }
    \cup { InvalidJsonText }

\* What may be at the full path of a spec file.
SpecFileChoices(fullPath) ==
  {NoFile, Directory}
    \cup { File(text) : text \in IF fullPath = "/w1/env.json"
                                   THEN SpecTexts ELSE SpecTexts \ {InvalidJsonText} }

InitLoad ==
  /\ specFiles \in { fs \in [SpecFullPaths -> UNION { SpecFileChoices(q) : q \in SpecFullPaths }] :
                       /\ \A q \in SpecFullPaths : fs[q] \in SpecFileChoices(q)
                       /\ fs["/w2/env.yaml"] \in {NoFile, File("name: relative-test")} }
  /\ loaded = NoResult
  /\ ManagerIdle
  /\ FingerprintIdle
  /\ SnapshotIdle
  /\ SecretsIdle
  /\ PluginsIdle
  /\ DoctorIdle
  /\ ResolverIdle
  /\ BreakerIdle
  /\ TransactionIdle
  /\ ChangesIdle
  /\ PipelineIdle
  /\ IntegrationsIdle
  /\ RetryIdle

\* loadSpec(specPath, {cwd})
LoadSpec ==
  /\ loaded = NoResult
  /\ \E specPath \in SpecPaths, cwd \in Cwds :
       loaded' = [specPath |-> specPath, cwd |-> cwd,
                  outcome |-> loadSpec(specFiles, specPath, cwd)]
  /\ UNCHANGED specFiles
  /\ UNCHANGED outsideLoad

\* The caller takes the outcome.
LoadReturn ==
  /\ loaded # NoResult
  /\ loaded' = NoResult
  /\ UNCHANGED specFiles
  /\ UNCHANGED outsideLoad

NextLoad ==
  \/ LoadSpec
  \/ LoadReturn

SpecLoad == InitLoad /\ [][NextLoad]_vars

(***************************************************************************)
(* readJson                                                                *)
(***************************************************************************)
\* The values a snapshot file may hold: a spec, a fingerprint and a time.
SnapshotValues ==
  { JObject(<<Member("spec", spec),
              Member("fingerprint", JString(fingerprintSpec(hashed))),
              Member("createdAt", JString(ToISOString(t)))>>) :
      spec \in SnapshotSpecs, hashed \in SnapshotSpecs, t \in 0..MaxClock }

SnapshotTexts == ParseTable(SnapshotValues)

\* readJson(filePath): the parsed text of the file, or the error of readFile
\* or of JSON.parse.
readJson(fs, filePath) ==
  LET buffer == readFile(fs, filePath)
  IN  IF buffer.status = "rejected" THEN buffer
      ELSE LET parsed == JSONParse(buffer.value, SnapshotTexts)
           IN  IF parsed.ok THEN Resolved(parsed.value) ELSE Rejected("SyntaxError")

(***************************************************************************)
(* PluginRegistry                                                          *)
(*                                                                         *)
(* this.hooks is a plain object created by {}: reading a property that it  *)
(* does not own falls through to Object.prototype.                         *)
(***************************************************************************)
ObjectPrototypeKeys ==
  {"constructor", "hasOwnProperty", "isPrototypeOf", "propertyIsEnumerable",
   "toLocaleString", "toString", "valueOf", "__proto__"}

\* this.hooks[event]: an own array, a member of Object.prototype, or undefined.
PropertyOf(registry, event) ==
  IF Has(registry, event) THEN [kind |-> "own", value |-> registry[event]]
  ELSE IF event \in ObjectPrototypeKeys THEN [kind |-> "inherited"]
  ELSE [kind |-> "undefined"]

\* register: an undefined entry becomes a new array; an inherited member is
\* truthy and has no push, so the call throws a TypeError.
register(registry, event, hook) ==
  LET current == PropertyOf(registry, event)
  IN  IF current.kind = "undefined" THEN Resolved(With(registry, event, <<hook>>))
      ELSE IF current.kind = "inherited" THEN Rejected("TypeError")
      ELSE Resolved([registry EXCEPT ![event] = Append(@, hook)])

\* const hooks = this.hooks[event] ?? []: the call in flight.  "live" says
\* that the local variable is the registry's own array, which later pushes
\* extend; "quiet" is history: no hook was registered since the call began.
StartRun(registry, event, context) ==
  LET current == PropertyOf(registry, event)
  IN  [event |-> event, context |-> context, live |-> current.kind = "own",
       next |-> 1, quiet |-> TRUE,
       status |-> IF current.kind = "inherited" THEN "rejected" ELSE "iterating",
       error |-> IF current.kind = "inherited" THEN "TypeError" ELSE "none"]

\* The array the for...of loop of the call in flight iterates over.
Iterated(registry, call) ==
  IF call.live THEN registry[call.event] ELSE <<>>

Invocation(at, hook, context) == [at |-> at, hook |-> hook, context |-> context]

(***************************************************************************)
(* SpecPlugins: hooks are registered and events are run                    *)
(***************************************************************************)
MaxHooks == 2

Events == {"pre-provision", "post-provision", "toString"}

HookNames == {"hookA", "hookB"}

Contexts == {"context1", "context2"}

RECURSIVE TotalHooks(_, _)
TotalHooks(registry, events) ==
  IF events = {} THEN 0
  ELSE LET e == CHOOSE x \in events : TRUE
       IN  Len(registry[e]) + TotalHooks(registry, events \ {e})

InitPlugins ==
  /\ ManagerIdle
  /\ FingerprintIdle
  /\ SnapshotIdle
  /\ SecretsIdle
  /\ LoadIdle
  /\ DoctorIdle
  /\ ResolverIdle
  /\ BreakerIdle
  /\ TransactionIdle
  /\ ChangesIdle
  /\ PipelineIdle
  /\ IntegrationsIdle
  /\ RetryIdle
  /\ hooks = <<>>
  /\ running = NoResult
  /\ invocations = <<>>

Register ==
  \E event \in Events, hook \in HookNames :
    LET outcome == register(hooks, event, hook)
    IN  /\ TotalHooks(hooks, DOMAIN hooks) < MaxHooks
        /\ hooks' = IF outcome.status = "resolved" THEN outcome.value ELSE hooks
        /\ running' = IF running # NoResult /\ outcome.status = "resolved"
                        THEN [running EXCEPT !.quiet = FALSE]
                        ELSE running
        /\ UNCHANGED invocations
        /\ UNCHANGED outsidePlugins

Run ==
  \E event \in Events, context \in Contexts :
    /\ running = NoResult
    /\ running' = StartRun(hooks, event, context)
    /\ invocations' = <<>>
    /\ UNCHANGED hooks
    /\ UNCHANGED outsidePlugins

\* for (const hook of hooks) { await hook(context) }: the hook is called.
HookStart ==
  /\ running # NoResult
  /\ running.status = "iterating"
  /\ running.next <= Len(Iterated(hooks, running))
  /\ invocations' = Append(invocations,
       Invocation("start", Iterated(hooks, running)[running.next], running.context))
  /\ running' = [running EXCEPT !.status = "awaiting"]
  /\ UNCHANGED hooks
  /\ UNCHANGED outsidePlugins

\* The awaited hook completes: the loop goes on to the next element.
HookComplete ==
  /\ running # NoResult
  /\ running.status = "awaiting"
  /\ invocations' = Append(invocations,
       Invocation("end", Iterated(hooks, running)[running.next], running.context))
  /\ running' = [running EXCEPT !.status = "iterating", !.next = @ + 1]
  /\ UNCHANGED hooks
  /\ UNCHANGED outsidePlugins

\* The awaited hook throws or rejects: run rejects with its error.
HookReject ==
  /\ running # NoResult
  /\ running.status = "awaiting"
  /\ running' = [running EXCEPT !.status = "rejected", !.error = "hook"]
  /\ UNCHANGED <<hooks, invocations>>
  /\ UNCHANGED outsidePlugins

\* The iterator is exhausted: run resolves.
RunResolve ==
  /\ running # NoResult
  /\ running.status = "iterating"
  /\ running.next > Len(Iterated(hooks, running))
  /\ running' = [running EXCEPT !.status = "resolved"]
  /\ UNCHANGED <<hooks, invocations>>
  /\ UNCHANGED outsidePlugins

RunReturn ==
  /\ running # NoResult
  /\ running.status \in {"resolved", "rejected"}
  /\ running' = NoResult
  /\ invocations' = <<>>
  /\ UNCHANGED hooks
  /\ UNCHANGED outsidePlugins

NextPlugins ==
  \/ Register
  \/ Run
  \/ HookStart
  \/ HookComplete
  \/ HookReject
  \/ RunResolve
  \/ RunReturn

SpecPlugins == InitPlugins /\ [][NextPlugins]_vars

(***************************************************************************)
(* runDoctor                                                               *)
(***************************************************************************)
DOCTOR_REPORT_FILE == DIAGNOSTICS_DIR \o "/doctor.json"

\* The timeout given to each command, in milliseconds.
CheckTimeoutMs == 15000

\* What execAsync under the timeout did: it resolved with the two outputs, it
\* rejected with an error carrying them, or the timeout rejected with an error
\* that has a message only.
ExecResolved(stdout, stderr) == [ok |-> TRUE, stdout |-> stdout, stderr |-> stderr]
ExecRejected(stdout, stderr, message) ==
  [ok |-> FALSE, stdout |-> stdout, stderr |-> stderr, message |-> message]
ExecTimedOut(command) ==
  [ok |-> FALSE, message |-> "Command execution timed out: " \o command]

\* String.prototype.trim on the outputs of the model.
Trim(text) ==
  CASE text = "hello\n" -> "hello"
    [] text = "  failed\n" -> "failed"
    [] OTHER -> text

\* Faulty variant: every check is reported as passed.
executeDoctorCheckAlwaysPassing(command, outcome, durationMs) ==
  JObject(<<Member("command", JString(command)),
            Member("success", JBoolean(TRUE)),
            Member("stdout", JString(IF Has(outcome, "stdout") THEN Trim(outcome.stdout) ELSE "")),
            Member("stderr", JString(IF Has(outcome, "stderr") THEN Trim(outcome.stderr) ELSE "")),
            Member("durationMs", JNumber(durationMs))>>)

\* executeDoctorCheck: the DoctorCheckResult of a command, given what exec did
\* and the time it took.
executeDoctorCheck(command, outcome, durationMs) ==
  IF outcome.ok
    THEN JObject(<<Member("command", JString(command)),
                   Member("success", JBoolean(TRUE)),
                   Member("stdout", JString(Trim(outcome.stdout))),
                   Member("stderr", JString(Trim(outcome.stderr))),
                   Member("durationMs", JNumber(durationMs))>>)
    ELSE JObject(<<Member("command", JString(command)),
                   Member("success", JBoolean(FALSE)),
                   Member("stdout",
                          JString(IF Has(outcome, "stdout") THEN Trim(outcome.stdout) ELSE "")),
                   Member("stderr",
                          JString(IF Has(outcome, "stderr") THEN Trim(outcome.stderr)
                                  ELSE Trim(outcome.message))),
                   Member("durationMs", JNumber(durationMs))>>)

\* results.filter((result) => result.success).length
Passed(checkResults) ==
  Len(SelectSeq(checkResults, LAMBDA r : Get(r, "success").boolean))

\* The DoctorReport built from the results at clock reading t.
DoctorReport(checkResults, t) ==
  JObject(<<Member("summary",
                   JObject(<<Member("total", JNumber(Len(checkResults))),
                             Member("passed", JNumber(Passed(checkResults))),
                             Member("failed",
                                    JNumber(Len(checkResults) - Passed(checkResults))),
                             Member("timestamp", JString(ToISOString(t)))>>)),
            Member("results", JArray(checkResults))>>)

\* writeJson(reportPath, report): the directory of the file is made, then the
\* file is written with two spaces of indentation.
writeDoctorReport(fs, cwd, data) ==
  [Mkdir(fs, PathJoin(cwd, DIAGNOSTICS_DIR))
     EXCEPT ![PathJoin(cwd, DOCTOR_REPORT_FILE)] = File(JSONStringify(data, NoReplacer, 2))]

\* spec.checks, or the empty list where the loop is skipped.
ChecksOf(spec) ==
  IF HasKey(spec, "checks") THEN [i \in 1..Len(Get(spec, "checks").items) |->
                                    Get(spec, "checks").items[i].value]
  ELSE <<>>

(***************************************************************************)
(* SpecDoctor: runDoctor on specs with up to MaxChecks checks              *)
(***************************************************************************)
MaxChecks == 2

DoctorCwd == "/w1"

DoctorPaths ==
  { PathJoin(DoctorCwd, relativePath) :
      relativePath \in {STATE_DIR, DIAGNOSTICS_DIR, DOCTOR_REPORT_FILE} }

Commands == {"echo hello", "exit 1"}

Durations == {1}

\* Clock readings at which a report is built.
DoctorClocks == {0, 1}

CheckLists ==
  UNION { [1..n -> Commands] : n \in 0..MaxChecks }

DoctorSpecs ==
  {JObject(<<NameX>>)}
  \cup { JObject(<<NameX, Member("checks", JArray([i \in 1..Len(list) |-> JString(list[i])]))>>) :
           list \in CheckLists }

\* What exec may do with a command, and the milliseconds it then took.
Executions(command) ==
  { [outcome |-> ExecResolved("hello\n", ""), durationMs |-> d] : d \in Durations }
  \cup { [outcome |-> ExecRejected("", "  failed\n", "Command failed: " \o command),
          durationMs |-> d] : d \in Durations }
  \cup { [outcome |-> ExecTimedOut(command), durationMs |-> CheckTimeoutMs] }

InitDoctor ==
  /\ ManagerIdle
  /\ FingerprintIdle
  /\ SnapshotIdle
  /\ SecretsIdle
  /\ LoadIdle
  /\ PluginsIdle
  /\ ResolverIdle
  /\ BreakerIdle
  /\ TransactionIdle
  /\ ChangesIdle
  /\ PipelineIdle
  /\ IntegrationsIdle
  /\ RetryIdle
  /\ doctorSpec = NoResult
  /\ executions = <<>>
  /\ doctorResults = <<>>
  /\ report = NoResult
  /\ doctorFiles = [path \in DoctorPaths |-> NoFile]

\* runDoctor(spec, {cwd}) up to the loop.
RunDoctor ==
  \E spec \in DoctorSpecs :
    /\ doctorSpec = NoResult
    /\ doctorSpec' = spec
    /\ executions' = <<>>
    /\ doctorResults' = <<>>
    /\ report' = NoResult
    /\ doctorFiles' = ensureStateDirectories(doctorFiles, DoctorCwd)
    /\ UNCHANGED outsideDoctor

\* results.push(await executeDoctorCheck(command, cwd)) for the next command.
ExecuteCheck ==
  /\ doctorSpec # NoResult
  /\ report = NoResult
  /\ Len(doctorResults) < Len(ChecksOf(doctorSpec))
  /\ LET command == ChecksOf(doctorSpec)[Len(doctorResults) + 1]
     IN  \E execution \in Executions(command) :
           /\ executions' = Append(executions,
                                   [command |-> command, outcome |-> execution.outcome])
           /\ doctorResults' = Append(doctorResults,
                                executeDoctorCheck(command, execution.outcome,
                                                   execution.durationMs))
  /\ UNCHANGED <<doctorSpec, report, doctorFiles>>
  /\ UNCHANGED outsideDoctor

\* After the loop: the report is built, written and returned.
WriteReport ==
  /\ doctorSpec # NoResult
  /\ report = NoResult
  /\ Len(doctorResults) = Len(ChecksOf(doctorSpec))
  /\ \E t \in DoctorClocks :
       /\ report' = DoctorReport(doctorResults, t)
       /\ doctorFiles' = writeDoctorReport(doctorFiles, DoctorCwd, DoctorReport(doctorResults, t))
  /\ UNCHANGED <<doctorSpec, executions, doctorResults>>
  /\ UNCHANGED outsideDoctor

DoctorReturn ==
  /\ report # NoResult
  /\ doctorSpec' = NoResult
  /\ executions' = <<>>
  /\ doctorResults' = <<>>
  /\ report' = NoResult
  /\ UNCHANGED doctorFiles
  /\ UNCHANGED outsideDoctor

NextDoctor ==
  \/ RunDoctor
  \/ ExecuteCheck
  \/ WriteReport
  \/ DoctorReturn

SpecDoctor == InitDoctor /\ [][NextDoctor]_vars

(***************************************************************************)
(* SpecResolver: an EnvironmentResolver is constructed from a base spec    *)
(* and a list of layers given separately, then validated, one iteration of *)
(* its loops at a time                                                     *)
(***************************************************************************)
ResolverLayerChoices ==
  { Layer(n, e, <<>>) :
      n \in LayerNames,
      e \in {<<>>} \cup { <<x>> : x \in ExtendsNames } }

ResolverLayerLists == UNION { [1..n -> ResolverLayerChoices] : n \in 0..MaxLayers }

CyclicLayers == <<Layer("a", <<"b">>, <<>>), Layer("b", <<"a">>, <<>>)>>

\* The base specs a resolver may be given with a list of layers: without an
\* environments field, with the list itself, or with another list.
ResolverBases(hierarchies) ==
  {BasePartial,
   With(BasePartial, "environments", hierarchies),
   With(BasePartial, "environments", <<>>),
   With(BasePartial, "environments", CyclicLayers)}

\* The for loop of validateHierarchy reaches the entry at position i.
WalkFrom(map, i, errors) ==
  [entry |-> i, current |-> map[i].value, visited |-> <<>>, errors |-> errors,
   steps |-> 0, done |-> FALSE]

\* Faulty variant: the walk stops after its first step.
WalkBodyOneStep(map, w) ==
  IF w.current.name \in Range(w.visited)
    THEN [w EXCEPT !.errors = Append(@, CircularMessage(map[w.entry].key)),
                   !.steps = @ + 1, !.done = TRUE]
    ELSE [w EXCEPT !.visited = Append(@, w.current.name),
                   !.steps = @ + 1, !.done = TRUE]

\* Faulty variant: visited remembers the last name only.
WalkBodyForgetful(map, w) ==
  LET spec == map[w.entry].value
      hierarchy == FindHierarchy(spec, w.current.name)
  IN  IF w.current.name \in Range(w.visited)
        THEN [w EXCEPT !.errors = Append(@, CircularMessage(map[w.entry].key)),
                       !.steps = @ + 1, !.done = TRUE]
        ELSE IF hierarchy # <<>> /\ Truthy(hierarchy[1], "extends")
                  /\ MapHas(map, hierarchy[1].extends)
               THEN [w EXCEPT !.visited = <<w.current.name>>,
                              !.current = MapGet(map, hierarchy[1].extends),
                              !.steps = @ + 1]
               ELSE [w EXCEPT !.visited = <<w.current.name>>,
                              !.steps = @ + 1, !.done = TRUE]

\* One execution of the body of validateHierarchy's while loop for the entry
\* map[w.entry], followed by the test of the loop condition.
WalkBody(map, w) ==
  LET spec == map[w.entry].value
      hierarchy == FindHierarchy(spec, w.current.name)
  IN  IF w.current.name \in Range(w.visited)
        THEN [w EXCEPT !.errors = Append(@, CircularMessage(map[w.entry].key)),
                       !.steps = @ + 1, !.done = TRUE]
        ELSE IF hierarchy # <<>> /\ Truthy(hierarchy[1], "extends")
                  /\ MapHas(map, hierarchy[1].extends)
               THEN [w EXCEPT !.visited = Append(@, w.current.name),
                              !.current = MapGet(map, hierarchy[1].extends),
                              !.steps = @ + 1]
               ELSE [w EXCEPT !.visited = Append(@, w.current.name),
                              !.steps = @ + 1, !.done = TRUE]

InitResolver ==
  /\ ManagerIdle
  /\ FingerprintIdle
  /\ SnapshotIdle
  /\ SecretsIdle
  /\ LoadIdle
  /\ PluginsIdle
  /\ DoctorIdle
  /\ BreakerIdle
  /\ TransactionIdle
  /\ ChangesIdle
  /\ PipelineIdle
  /\ IntegrationsIdle
  /\ RetryIdle
  /\ resolverBase = NoResult
  /\ resolverHierarchies = <<>>
  /\ resolverPc = "idle"
  /\ resolverBuilt = 0
  /\ resolverEnvironments = <<>>
  /\ walk = NoResult
  /\ validation = NoResult

\* new EnvironmentResolver(baseSpec, hierarchies): the base is stored.
NewResolver ==
  /\ resolverPc = "idle"
  /\ \E hierarchies \in ResolverLayerLists :
       \E base \in ResolverBases(hierarchies) :
         /\ resolverBase' = base
         /\ resolverHierarchies' = hierarchies
         /\ resolverEnvironments' = MapSet(<<>>, base.name, base)
         /\ resolverPc' = IF hierarchies = <<>> THEN "ready" ELSE "building"
  /\ UNCHANGED <<resolverBuilt, walk, validation>>
  /\ UNCHANGED outsideResolver

\* One iteration of the constructor's loop: the next layer is resolved and
\* stored.
ResolveNext ==
  /\ resolverPc = "building"
  /\ resolverEnvironments' = setHierarchy(resolverEnvironments, resolverBase, resolverHierarchies[resolverBuilt + 1])
  /\ resolverBuilt' = resolverBuilt + 1
  /\ resolverPc' = IF resolverBuilt + 1 = Len(resolverHierarchies) THEN "ready" ELSE "building"
  /\ UNCHANGED <<resolverBase, resolverHierarchies, walk, validation>>
  /\ UNCHANGED outsideResolver

\* resolver.validateHierarchy() is called: the for loop takes the first entry.
ValidateStart ==
  /\ resolverPc = "ready"
  /\ resolverPc' = "validating"
  /\ walk' = WalkFrom(resolverEnvironments, 1, <<>>)
  /\ UNCHANGED <<resolverBase, resolverHierarchies, resolverBuilt, resolverEnvironments, validation>>
  /\ UNCHANGED outsideResolver

\* One iteration of the while loop.
WalkStep ==
  /\ resolverPc = "validating"
  /\ ~walk.done
  /\ walk' = WalkBody(resolverEnvironments, walk)
  /\ UNCHANGED <<resolverBase, resolverHierarchies, resolverPc, resolverBuilt, resolverEnvironments, validation>>
  /\ UNCHANGED outsideResolver

\* The while loop has ended: the for loop takes the next entry.
NextEntry ==
  /\ resolverPc = "validating"
  /\ walk.done
  /\ walk.entry < Len(resolverEnvironments)
  /\ walk' = WalkFrom(resolverEnvironments, walk.entry + 1, walk.errors)
  /\ UNCHANGED <<resolverBase, resolverHierarchies, resolverPc, resolverBuilt, resolverEnvironments, validation>>
  /\ UNCHANGED outsideResolver

\* The for loop has ended: validateHierarchy returns.
ValidateEnd ==
  /\ resolverPc = "validating"
  /\ walk.done
  /\ walk.entry = Len(resolverEnvironments)
  /\ validation' = [valid |-> Len(walk.errors) = 0, errors |-> walk.errors]
  /\ resolverPc' = "validated"
  /\ UNCHANGED <<resolverBase, resolverHierarchies, resolverBuilt, resolverEnvironments, walk>>
  /\ UNCHANGED outsideResolver

NextResolver ==
  \/ NewResolver
  \/ ResolveNext
  \/ ValidateStart
  \/ WalkStep
  \/ NextEntry
  \/ ValidateEnd

SpecResolver == InitResolver /\ [][NextResolver]_vars

\* The constructor and validateHierarchy run on: no loop iteration that can
\* be taken is put off for ever.
SpecResolverFair == SpecResolver /\ WF_vars(NextResolver)

(***************************************************************************)
(* CircuitBreaker                                                          *)
(***************************************************************************)
CLOSED == "closed"
OPEN == "open"
HALF_OPEN == "half-open"

\* new CircuitBreaker(name, config)
NewCircuitBreaker(config) ==
  [state |-> CLOSED, failureCount |-> 0, successCount |-> 0,
   lastFailureTime |-> <<>>, config |-> config]

\* Faulty variant: an open breaker becomes half-open at the next look, however
\* recent its last failure.
checkResetAtOnce(b, t) ==
  IF b.state # OPEN THEN b
  ELSE IF b.lastFailureTime = <<>> \/ b.lastFailureTime = <<0>> THEN b
  ELSE [b EXCEPT !.state = HALF_OPEN, !.successCount = 0]

\* checkReset at clock reading t: an open breaker whose last failure lies
\* resetTimeoutMs back becomes half-open.  lastFailureTime is <<>> when
\* undefined; 0 is falsy as well.
checkReset(b, t) ==
  IF b.state # OPEN THEN b
  ELSE IF b.lastFailureTime = <<>> \/ b.lastFailureTime = <<0>> THEN b
  ELSE IF t - b.lastFailureTime[1] >= b.config.resetTimeoutMs
         THEN [b EXCEPT !.state = HALF_OPEN, !.successCount = 0]
         ELSE b

\* Faulty variant: the first success of a half-open breaker closes it.
recordSuccessClosing(b) ==
  LET cleared == [b EXCEPT !.failureCount = 0]
  IN  IF cleared.state = HALF_OPEN
        THEN [cleared EXCEPT !.state = CLOSED, !.successCount = 0]
        ELSE cleared

recordSuccess(b) ==
  LET cleared == [b EXCEPT !.failureCount = 0]
  IN  IF cleared.state = HALF_OPEN
        THEN IF cleared.successCount + 1 >= cleared.config.successThreshold
               THEN [cleared EXCEPT !.state = CLOSED, !.successCount = 0]
               ELSE [cleared EXCEPT !.successCount = @ + 1]
        ELSE cleared

recordFailure(b, t) ==
  LET counted == [b EXCEPT !.failureCount = @ + 1, !.lastFailureTime = <<t>>]
  IN  IF counted.failureCount >= counted.config.failureThreshold /\ counted.state = CLOSED
        THEN [counted EXCEPT !.state = OPEN]
        ELSE counted

\* reset()
resetBreaker(b) ==
  [b EXCEPT !.state = CLOSED, !.failureCount = 0, !.successCount = 0,
            !.lastFailureTime = <<>>]

(***************************************************************************)
(* SpecBreaker: calls through a circuit breaker, some of them overlapping  *)
(***************************************************************************)
MaxTime == 3

MaxFailures == 3

MaxPending == 2

Thresholds == {1, 2}

ResetTimeouts == {1, 2}

BreakerConfigs ==
  [failureThreshold : Thresholds, successThreshold : Thresholds,
   resetTimeoutMs : ResetTimeouts]

InitBreaker ==
  /\ ManagerIdle
  /\ FingerprintIdle
  /\ SnapshotIdle
  /\ SecretsIdle
  /\ LoadIdle
  /\ PluginsIdle
  /\ DoctorIdle
  /\ ResolverIdle
  /\ TransactionIdle
  /\ ChangesIdle
  /\ PipelineIdle
  /\ IntegrationsIdle
  /\ RetryIdle
  /\ breaker \in { NewCircuitBreaker(config) : config \in BreakerConfigs }
  /\ breakerClock = 1
  /\ pending = 0
  /\ streak = 0
  /\ trialSuccesses = 0
  /\ lastCall = NoResult

\* The count of trial successes starts again when a step makes the breaker
\* half-open.
Trial(before, after, count) ==
  IF before.state # HALF_OPEN /\ after.state = HALF_OPEN THEN 0 ELSE count

\* execute(fn) up to the call of fn: the breaker is checked for a reset, an
\* open breaker rejects, any other calls fn.
Execute ==
  /\ pending < MaxPending
  /\ breaker.failureCount + pending < MaxFailures
  /\ LET checked == checkReset(breaker, breakerClock)
     IN  /\ breaker' = checked
         /\ IF checked.state = OPEN
              THEN /\ lastCall' = [op |-> "execute", outcome |-> "open", from |-> OPEN]
                   /\ UNCHANGED pending
              ELSE /\ lastCall' = [op |-> "execute", outcome |-> "called",
                                   from |-> checked.state]
                   /\ pending' = pending + 1
         /\ trialSuccesses' = Trial(breaker, checked, trialSuccesses)
  /\ UNCHANGED <<breakerClock, streak>>
  /\ UNCHANGED outsideBreaker

\* A pending fn resolves: recordSuccess, the result is returned.
FnResolves ==
  /\ pending > 0
  /\ breaker' = recordSuccess(breaker)
  /\ pending' = pending - 1
  /\ streak' = 0
  /\ trialSuccesses' = IF breaker.state = HALF_OPEN THEN trialSuccesses + 1
                                                    ELSE trialSuccesses
  /\ lastCall' = [op |-> "execute", outcome |-> "success", from |-> breaker.state]
  /\ UNCHANGED breakerClock
  /\ UNCHANGED outsideBreaker

\* A pending fn rejects: recordFailure, the error is rethrown.
FnRejects ==
  /\ pending > 0
  /\ breaker' = recordFailure(breaker, breakerClock)
  /\ pending' = pending - 1
  /\ streak' = streak + 1
  /\ lastCall' = [op |-> "execute", outcome |-> "failure", from |-> breaker.state]
  /\ UNCHANGED <<breakerClock, trialSuccesses>>
  /\ UNCHANGED outsideBreaker

\* getState(), also through getStatus()
GetState ==
  /\ breaker' = checkReset(breaker, breakerClock)
  /\ trialSuccesses' = Trial(breaker, checkReset(breaker, breakerClock), trialSuccesses)
  /\ lastCall' = [op |-> "getState", outcome |-> checkReset(breaker, breakerClock).state,
                  from |-> breaker.state]
  /\ UNCHANGED <<breakerClock, pending, streak>>
  /\ UNCHANGED outsideBreaker

\* reset()
Reset ==
  /\ breaker' = resetBreaker(breaker)
  /\ streak' = 0
  /\ lastCall' = [op |-> "reset", outcome |-> CLOSED, from |-> breaker.state]
  /\ UNCHANGED <<breakerClock, pending, trialSuccesses>>
  /\ UNCHANGED outsideBreaker

\* A millisecond passes.
BreakerTick ==
  /\ breakerClock < MaxTime
  /\ breakerClock' = breakerClock + 1
  /\ lastCall' = [op |-> "tick", outcome |-> "none", from |-> breaker.state]
  /\ UNCHANGED <<breaker, pending, streak, trialSuccesses>>
  /\ UNCHANGED outsideBreaker

NextBreaker ==
  \/ Execute
  \/ FnResolves
  \/ FnRejects
  \/ GetState
  \/ Reset
  \/ BreakerTick

SpecBreaker == InitBreaker /\ [][NextBreaker]_vars

(***************************************************************************)
(* SpecTransaction: one transaction, used directly or through              *)
(* executeWithRollback                                                     *)
(***************************************************************************)
MaxCompensations == 3

\* The compensations an operation registers for itself.
OwnCompensations == {"undoA", "undoB"}

\* The compensation handed to executeWithRollback.
SuppliedCompensation == "compensation"

InitTransaction ==
  /\ ManagerIdle
  /\ FingerprintIdle
  /\ SnapshotIdle
  /\ SecretsIdle
  /\ LoadIdle
  /\ PluginsIdle
  /\ DoctorIdle
  /\ ResolverIdle
  /\ BreakerIdle
  /\ TransactionIdle
  /\ ChangesIdle
  /\ PipelineIdle
  /\ IntegrationsIdle
  /\ RetryIdle

\* begin()
Begin ==
  /\ transaction = NoResult
  /\ helper.pc = "none"
  /\ transaction' = NewTransaction
  /\ lastTxnStep' = [op |-> "begin", outcome |-> "returned"]
  /\ UNCHANGED <<rollbackCall, compensated, helper>>
  /\ UNCHANGED outsideTransaction

\* executeWithRollback(operation, compensation) up to the call of operation,
\* which is handed the transaction.
ExecuteWithRollback ==
  /\ transaction = NoResult
  /\ helper.pc = "none"
  /\ \E compensation \in {"undefined", SuppliedCompensation} :
       helper' = [NoHelper EXCEPT !.pc = "operation", !.compensation = compensation]
  /\ transaction' = NewTransaction
  /\ lastTxnStep' = [op |-> "executeWithRollback", outcome |-> "called"]
  /\ UNCHANGED <<rollbackCall, compensated>>
  /\ UNCHANGED outsideTransaction

\* registerCompensation(fn)
RegisterCompensation ==
  /\ transaction # NoResult
  /\ IF ~transaction.active
       THEN /\ lastTxnStep' = [op |-> "registerCompensation", outcome |-> "threw"]
            /\ UNCHANGED transaction
       ELSE /\ Len(transaction.compensations) < MaxCompensations
            /\ \E fn \in OwnCompensations :
                 transaction' = registerCompensation(transaction, fn)
            /\ lastTxnStep' = [op |-> "registerCompensation", outcome |-> "returned"]
  /\ UNCHANGED <<rollbackCall, compensated, helper>>
  /\ UNCHANGED outsideTransaction

\* commit()
Commit ==
  /\ transaction # NoResult
  /\ IF ~transaction.active
       THEN /\ lastTxnStep' = [op |-> "commit", outcome |-> "threw"]
            /\ UNCHANGED transaction
       ELSE /\ transaction' = commit(transaction)
            /\ lastTxnStep' = [op |-> "commit", outcome |-> "resolved"]
  /\ UNCHANGED <<rollbackCall, compensated, helper>>
  /\ UNCHANGED outsideTransaction

\* rollback() called from outside executeWithRollback: an inactive
\* transaction makes it return, an active one is made inactive and the loop
\* over the compensations begins.
Rollback ==
  /\ transaction # NoResult
  /\ IF ~transaction.active
       THEN /\ lastTxnStep' = [op |-> "rollback", outcome |-> "returned"]
            /\ UNCHANGED <<transaction, rollbackCall>>
       ELSE /\ transaction' = [transaction EXCEPT !.active = FALSE]
            /\ rollbackCall' = rollback(transaction, "direct")
            /\ lastTxnStep' = [op |-> "rollback", outcome |-> "started"]
  /\ UNCHANGED <<compensated, helper>>
  /\ UNCHANGED outsideTransaction

\* One turn of the loop: the compensation at index is called and awaited.
RollbackTurn ==
  /\ rollbackCall.pc = "loop"
  /\ rollbackCall.index >= 1
  /\ \E ok \in BOOLEAN :
       LET fn == transaction.compensations[rollbackCall.index]
       IN  /\ rollbackCall' = rollbackTurn(rollbackCall, fn, ok)
           /\ compensated' = Append(compensated,
                                    [index |-> rollbackCall.index, fn |-> fn, ok |-> ok])
  /\ lastTxnStep' = [op |-> "compensation", outcome |-> "settled"]
  /\ UNCHANGED <<transaction, helper>>
  /\ UNCHANGED outsideTransaction

\* The loop is over: rollback() rejects with one error made of the collected
\* ones, or resolves.  When executeWithRollback awaited it, that call rejects
\* with the rollback's error, or else with the operation's error.
RollbackEnd ==
  /\ rollbackCall.pc = "loop"
  /\ rollbackCall.index = 0
  /\ rollbackCall' = [rollbackCall EXCEPT !.pc = "done"]
  /\ lastTxnStep' = [op |-> "rollback",
                     outcome |-> IF Len(rollbackCall.errors) > 0 THEN "rejected"
                                                                 ELSE "resolved"]
  /\ helper' = IF rollbackCall.caller = "helper"
                 THEN [helper EXCEPT !.pc = "done", !.outcome = "rejected",
                                     !.error = IF Len(rollbackCall.errors) > 0
                                                 THEN "rollback-errors"
                                                 ELSE "operation-error"]
                 ELSE helper
  /\ UNCHANGED <<transaction, compensated>>
  /\ UNCHANGED outsideTransaction

\* The operation resolves: the rest of executeWithRollback's try block.
OperationResolves ==
  /\ helper.pc = "operation"
  /\ transaction' = AfterOperation(transaction, helper).t
  /\ helper' = AfterOperation(transaction, helper).h
  /\ lastTxnStep' = [op |-> "executeWithRollback", outcome |-> helper'.outcome]
  /\ UNCHANGED <<rollbackCall, compensated>>
  /\ UNCHANGED outsideTransaction

\* The operation rejects: the catch block calls rollback() and rethrows.
OperationRejects ==
  /\ helper.pc = "operation"
  /\ IF ~transaction.active
       THEN /\ helper' = [helper EXCEPT !.pc = "done", !.operation = "rejected",
                                        !.outcome = "rejected",
                                        !.error = "operation-error"]
            /\ lastTxnStep' = [op |-> "executeWithRollback", outcome |-> "rejected"]
            /\ UNCHANGED <<transaction, rollbackCall>>
       ELSE /\ helper' = [helper EXCEPT !.pc = "rollback", !.operation = "rejected"]
            /\ transaction' = [transaction EXCEPT !.active = FALSE]
            /\ rollbackCall' = rollback(transaction, "helper")
            /\ lastTxnStep' = [op |-> "executeWithRollback", outcome |-> "rollback"]
  /\ UNCHANGED compensated
  /\ UNCHANGED outsideTransaction

NextTransaction ==
  \/ Begin
  \/ ExecuteWithRollback
  \/ RegisterCompensation
  \/ Commit
  \/ Rollback
  \/ RollbackTurn
  \/ RollbackEnd
  \/ OperationResolves
  \/ OperationRejects

SpecTransaction == InitTransaction /\ [][NextTransaction]_vars

(***************************************************************************)
(* SpecChanges: the public operations of a ChangeManagementSystem          *)
(***************************************************************************)
MaxRequests == 2

\* The ids createChangeRequest makes up, in the order it makes them up.
RequestIds == [i \in 1..MaxRequests |-> "cr-" \o ToString(i)]

\* Ids a caller may pass: those of requests and one of no request.
CallerIds == Range(RequestIds) \cup {"cr-none"}

Statuses == {"draft", "pending_review", "approved", "rejected", "implemented"}

Reviewers == {"alice"}

\* Partial<ChangeRequest> values a caller may pass to updateChangeRequest.
Updates ==
  {[title |-> "Retitled"]} \cup {[status |-> s] : s \in Statuses}

InitChanges ==
  /\ ManagerIdle
  /\ FingerprintIdle
  /\ SnapshotIdle
  /\ SecretsIdle
  /\ LoadIdle
  /\ PluginsIdle
  /\ DoctorIdle
  /\ ResolverIdle
  /\ BreakerIdle
  /\ TransactionIdle
  /\ ChangesIdle
  /\ PipelineIdle
  /\ IntegrationsIdle
  /\ RetryIdle

CreateChangeRequest ==
  /\ Cardinality(DOMAIN changeRequests) < MaxRequests
  /\ LET id == RequestIds[Cardinality(DOMAIN changeRequests) + 1]
     IN  /\ changeRequests' =
               createChangeRequest(changeRequests, id, [title |-> "Title"])
  /\ UNCHANGED reviewed
  /\ UNCHANGED outsideChanges

UpdateChangeRequest ==
  /\ \E id \in CallerIds, updates \in Updates :
       LET call == updateChangeRequest(changeRequests, id, updates)
       IN  /\ changeRequests' = call.requests
  /\ UNCHANGED reviewed
  /\ UNCHANGED outsideChanges

SubmitForReview ==
  /\ \E id \in CallerIds :
       LET call == moveFrom(changeRequests, id, "draft", "pending_review", <<>>)
       IN  /\ changeRequests' = call.requests
           /\ reviewed' = IF call.returned
                            THEN [reviewed EXCEPT !.submitted = @ \cup {id}]
                            ELSE reviewed
  /\ UNCHANGED outsideChanges

ApproveChangeRequest ==
  /\ \E id \in CallerIds, reviewedBy \in Reviewers :
       LET call == moveFrom(changeRequests, id, "pending_review", "approved",
                            [reviewedBy |-> reviewedBy])
       IN  /\ changeRequests' = call.requests
           /\ reviewed' = IF call.returned
                            THEN [reviewed EXCEPT !.approved = @ \cup {id}]
                            ELSE reviewed
  /\ UNCHANGED outsideChanges

RejectChangeRequest ==
  /\ \E id \in CallerIds, reviewedBy \in Reviewers :
       LET call == moveFrom(changeRequests, id, "pending_review", "rejected",
                            [reviewedBy |-> reviewedBy])
       IN  /\ changeRequests' = call.requests
  /\ UNCHANGED reviewed
  /\ UNCHANGED outsideChanges

ImplementChangeRequest ==
  /\ \E id \in CallerIds :
       LET call == moveFrom(changeRequests, id, "approved", "implemented", <<>>)
       IN  /\ changeRequests' = call.requests
  /\ UNCHANGED reviewed
  /\ UNCHANGED outsideChanges

NextChanges ==
  \/ CreateChangeRequest
  \/ UpdateChangeRequest
  \/ SubmitForReview
  \/ ApproveChangeRequest
  \/ RejectChangeRequest
  \/ ImplementChangeRequest

SpecChanges == InitChanges /\ [][NextChanges]_vars

(***************************************************************************)
(* SpecPipeline: one pipeline, one execution of it, approveStage calls     *)
(***************************************************************************)
MaxStages == 2

MaxActions == 2

StageNames == [i \in 1..MaxStages |-> "stage-" \o ToString(i)]

Environments == {"staging", "production"}

\* The pipelines a caller creates: one to MaxStages stages with distinct
\* names, each with one to MaxActions actions, allowed in staging.
Pipelines ==
  { [stages |-> [i \in 1..n |->
                   [name |-> StageNames[i], requiresApproval |-> approval[i],
                    actions |-> count[i]]],
     environments |-> {"staging"}] :
      n \in 1..MaxStages,
      approval \in [1..MaxStages -> BOOLEAN],
      count \in [1..MaxStages -> 1..MaxActions] }

InitPipeline ==
  /\ ManagerIdle
  /\ FingerprintIdle
  /\ SnapshotIdle
  /\ SecretsIdle
  /\ LoadIdle
  /\ PluginsIdle
  /\ DoctorIdle
  /\ ResolverIdle
  /\ BreakerIdle
  /\ TransactionIdle
  /\ ChangesIdle
  /\ PipelineIdle
  /\ IntegrationsIdle
  /\ RetryIdle

\* createPipeline(pipeline)
CreatePipeline ==
  /\ pipelines = <<>>
  /\ \E pipeline \in Pipelines : pipelines' = ("pipeline-1" :> pipeline)
  /\ UNCHANGED <<deployment, runner>>
  /\ UNCHANGED outsidePipeline

\* executePipeline(pipelineId, environment, triggeredBy) with runExecution up
\* to its first await; an unknown pipeline or an environment that is not
\* allowed makes it throw.
ExecutePipeline ==
  /\ deployment = NoResult
  /\ \E pipelineId \in {"pipeline-1", "pipeline-none"}, environment \in Environments :
       IF pipelineId \notin DOMAIN pipelines
            \/ environment \notin pipelines[pipelineId].environments
         THEN UNCHANGED <<deployment, runner>>
         ELSE LET pipeline == pipelines[pipelineId]
                  started == runStageExecution(
                               [NewExecution(pipeline, environment) EXCEPT !.status = "running"],
                               pipeline, 1)
              IN  /\ deployment' = started.d
                  /\ runner' = started.r
  /\ UNCHANGED pipelines
  /\ UNCHANGED outsidePipeline

\* The second slept for a stage that requires approval is over.
SleepEnds ==
  /\ runner.phase = "sleep"
  /\ LET resumed == runSingleAction(
                      [deployment EXCEPT !.stages[runner.stage].status = "running"],
                      runner.stage, 1)
     IN  /\ deployment' = resumed.d
         /\ runner' = resumed.r
  /\ UNCHANGED pipelines
  /\ UNCHANGED outsidePipeline

\* The executor settles the running action: completed, or failed (a result
\* with status failed, or a rejection).
ActionSettles ==
  /\ runner.phase = "action"
  /\ \E succeeded \in BOOLEAN :
       LET next == afterAction(deployment, pipelines["pipeline-1"], runner.stage,
                               runner.action, succeeded)
       IN  /\ deployment' = next.d
           /\ runner' = next.r
  /\ UNCHANGED pipelines
  /\ UNCHANGED outsidePipeline

\* approveStage(executionId, stageName, approvedBy)
ApproveStage ==
  /\ \E executionId \in {"exec-1", "exec-none"},
        stageName \in Range(StageNames) \cup {"stage-none"} :
       IF executionId = "exec-none" \/ deployment = NoResult
         THEN UNCHANGED deployment
         ELSE deployment' = approveStage(deployment, stageName).d
  /\ UNCHANGED <<pipelines, runner>>
  /\ UNCHANGED outsidePipeline

NextPipeline ==
  \/ CreatePipeline
  \/ ExecutePipeline
  \/ SleepEnds
  \/ ActionSettles
  \/ ApproveStage

SpecPipeline == InitPipeline /\ [][NextPipeline]_vars

(***************************************************************************)
(* SpecIntegrations: calls of an IntegrationRegistry that overlap          *)
(***************************************************************************)
MaxInflight == 2

IntegrationIds == {"int-1"}

IntegrationTypes == {"webhook"}

\* What a caller registers.
IntegrationConfigs ==
  { [id |-> id, type |-> "webhook", name |-> "Hook", status |-> "inactive"] :
      id \in IntegrationIds }

IntegrationUpdates == {[name |-> "Renamed"]}

InitIntegrations ==
  /\ ManagerIdle
  /\ FingerprintIdle
  /\ SnapshotIdle
  /\ SecretsIdle
  /\ LoadIdle
  /\ PluginsIdle
  /\ DoctorIdle
  /\ ResolverIdle
  /\ BreakerIdle
  /\ TransactionIdle
  /\ ChangesIdle
  /\ PipelineIdle
  /\ IntegrationsIdle
  /\ RetryIdle

\* registerProvider(type, provider)
RegisterProvider ==
  /\ \E type \in IntegrationTypes : integrationProviders' = integrationProviders \cup {type}
  /\ lastReturn' = [op |-> "registerProvider", id |-> "none", success |-> TRUE]
  /\ UNCHANGED <<integrations, instances, inflight>>
  /\ UNCHANGED outsideIntegrations

\* unregisterProvider(type)
UnregisterProvider ==
  /\ \E type \in IntegrationTypes :
       /\ integrationProviders' = integrationProviders \ {type}
       /\ lastReturn' = [op |-> "unregisterProvider", id |-> "none",
                         success |-> type \in integrationProviders]
  /\ UNCHANGED <<integrations, instances, inflight>>
  /\ UNCHANGED outsideIntegrations

\* registerIntegration(config) up to its await of validateConfig
RegisterIntegration ==
  /\ \E config \in IntegrationConfigs :
       IF config.type \notin integrationProviders
         THEN /\ lastReturn' = [op |-> "registerIntegration", id |-> config.id,
                                success |-> FALSE]
              /\ UNCHANGED inflight
         ELSE /\ Len(inflight) < MaxInflight
              /\ inflight' = Append(inflight, [op |-> "register", id |-> config.id, ref |-> 0])
              /\ lastReturn' = [op |-> "await", id |-> config.id,
                                success |-> FALSE]
  /\ UNCHANGED <<integrationProviders, integrations, instances>>
  /\ UNCHANGED outsideIntegrations

\* validateConfig settles: a valid config is stored, an invalid one is not.
ValidationSettles ==
  /\ \E k \in 1..Len(inflight), valid \in BOOLEAN :
       /\ inflight[k].op = "register"
       /\ inflight' = RemoveAt(inflight, k)
       /\ integrations' =
            IF valid
              THEN storeIntegration(integrations, RemoveAt(inflight, k),
                     CHOOSE config \in IntegrationConfigs : config.id = inflight[k].id)
              ELSE integrations
       /\ lastReturn' = [op |-> "registerIntegration", id |-> inflight[k].id,
                         success |-> valid]
  /\ UNCHANGED <<integrationProviders, instances>>
  /\ UNCHANGED outsideIntegrations

\* updateIntegration(id, updates)
UpdateIntegration ==
  /\ \E id \in IntegrationIds, updates \in IntegrationUpdates :
       /\ integrations' = updateIntegration(integrations, inflight, id, updates)
       /\ lastReturn' = [op |-> "updateIntegration", id |-> id,
                         success |-> id \in DOMAIN integrations]
  /\ UNCHANGED <<integrationProviders, instances, inflight>>
  /\ UNCHANGED outsideIntegrations

\* deleteIntegration(id): the instance of a deleted integration is disposed
\* of without waiting and dropped.
DeleteIntegration ==
  /\ \E id \in IntegrationIds :
       /\ integrations' = [other \in DOMAIN integrations \ {id} |-> integrations[other]]
       /\ instances' = IF id \in DOMAIN integrations THEN instances \ {id} ELSE instances
       /\ lastReturn' = [op |-> "deleteIntegration", id |-> id,
                         success |-> id \in DOMAIN integrations]
  /\ UNCHANGED <<integrationProviders, inflight>>
  /\ UNCHANGED outsideIntegrations

\* initializeIntegration(id) up to its await of provider.initialize
InitializeIntegration ==
  /\ \E id \in IntegrationIds :
       IF id \notin DOMAIN integrations \/ "webhook" \notin integrationProviders
         THEN /\ lastReturn' = [op |-> "initializeIntegration", id |-> id,
                                success |-> FALSE]
              /\ UNCHANGED inflight
         ELSE /\ Len(inflight) < MaxInflight
              /\ inflight' = Append(inflight, [op |-> "initialize", id |-> id,
                                               ref |-> integrations[id].ref])
              /\ lastReturn' = [op |-> "await", id |-> id,
                                success |-> FALSE]
  /\ UNCHANGED <<integrationProviders, integrations, instances>>
  /\ UNCHANGED outsideIntegrations

\* provider.initialize settles: the instance is stored and the object read
\* before the await becomes active, or that object gets status error.
InitializeSettles ==
  /\ \E k \in 1..Len(inflight), resolved \in BOOLEAN :
       /\ inflight[k].op = "initialize"
       /\ inflight' = RemoveAt(inflight, k)
       /\ instances' = IF resolved THEN instances \cup {inflight[k].id} ELSE instances
       /\ integrations' = setStatus(integrations, inflight[k].id, inflight[k].ref,
                                    IF resolved THEN "active" ELSE "error")
       /\ lastReturn' = [op |-> "initializeIntegration", id |-> inflight[k].id,
                         success |-> resolved]
  /\ UNCHANGED integrationProviders
  /\ UNCHANGED outsideIntegrations

\* disposeIntegration(id) up to its await of instance.dispose
DisposeIntegration ==
  /\ \E id \in IntegrationIds :
       IF id \notin instances
         THEN /\ lastReturn' = [op |-> "disposeIntegration", id |-> id, success |-> FALSE]
              /\ UNCHANGED inflight
         ELSE /\ Len(inflight) < MaxInflight
              /\ inflight' = Append(inflight, [op |-> "dispose", id |-> id, ref |-> 0])
              /\ lastReturn' = [op |-> "await", id |-> id,
                                success |-> FALSE]
  /\ UNCHANGED <<integrationProviders, integrations, instances>>
  /\ UNCHANGED outsideIntegrations

\* instance.dispose settles: the entry under id is dropped and the
\* integration under id becomes inactive, or nothing changes.
DisposeSettles ==
  /\ \E k \in 1..Len(inflight), resolved \in BOOLEAN :
       /\ inflight[k].op = "dispose"
       /\ inflight' = RemoveAt(inflight, k)
       /\ instances' = IF resolved THEN instances \ {inflight[k].id} ELSE instances
       /\ integrations' = IF resolved THEN setInactive(integrations, inflight[k].id)
                                      ELSE integrations
       /\ lastReturn' = [op |-> "disposeIntegration", id |-> inflight[k].id,
                         success |-> resolved]
  /\ UNCHANGED integrationProviders
  /\ UNCHANGED outsideIntegrations

NextIntegrations ==
  \/ RegisterProvider
  \/ UnregisterProvider
  \/ RegisterIntegration
  \/ ValidationSettles
  \/ UpdateIntegration
  \/ DeleteIntegration
  \/ InitializeIntegration
  \/ InitializeSettles
  \/ DisposeIntegration
  \/ DisposeSettles

SpecIntegrations == InitIntegrations /\ [][NextIntegrations]_vars

(***************************************************************************)
(* RetryDecorator                                                          *)
(***************************************************************************)
DEFAULT_RETRY_CONFIG ==
  [maxAttempts |-> 3, initialDelayMs |-> 100, maxDelayMs |-> 5000,
   backoffMultiplier |-> 2]

MathMin(a, b) == IF a <= b THEN a ELSE b

\* error instanceof Error ? error : new Error(String(error)), for what call
\* number `call` of fn threw.
ToError(value) ==
  [kind |-> "Error", message |-> value.message, call |-> value.call]

\* finalConfig.retryableErrors && !finalConfig.retryableErrors(lastError):
\* the predicate a caller passes accepts the errors whose message is
\* "transient".
NotRetryable(config, error) ==
  Has(config, "retryableErrors") /\ error.message # "transient"

\* Faulty variant: the delay grows without the cap of maxDelayMs.
nextDelayUncapped(delayMs, config) == delayMs * config.backoffMultiplier

\* The delay before the next attempt.
nextDelay(delayMs, config) ==
  MathMin(delayMs * config.backoffMultiplier, config.maxDelayMs)

\* new Error("Operation failed")
OperationFailed == [kind |-> "Error", message |-> "Operation failed", call |-> 0]

\* The for loop's test with attempt: fn is called, or the loop is over and
\* lastError, or the error made up for its absence, is thrown.
attemptOrGiveUp(call, attempt) ==
  IF attempt <= call.config.maxAttempts
    THEN [call EXCEPT !.pc = "calling", !.attempt = attempt]
    ELSE [call EXCEPT !.pc = "done", !.attempt = attempt,
                      !.result = Rejected(IF call.lastError = <<>>
                                            THEN OperationFailed
                                            ELSE call.lastError[1])]

\* execute(fn, config) up to the first call of fn
retryExecute(config) ==
  LET finalConfig == Spread(DEFAULT_RETRY_CONFIG, config)
  IN  attemptOrGiveUp([config |-> finalConfig, pc |-> "idle", attempt |-> 0,
                       delayMs |-> finalConfig.initialDelayMs, lastError |-> <<>>,
                       result |-> NoResult], 1)

\* The catch block for what fn threw.
retryCatch(call, value) ==
  LET failed == [call EXCEPT !.lastError = <<ToError(value)>>]
  IN  IF NotRetryable(call.config, ToError(value)) \/ call.attempt = call.config.maxAttempts
        THEN [failed EXCEPT !.pc = "done", !.result = Rejected(ToError(value))]
        ELSE [failed EXCEPT !.pc = "waiting",
                            !.delayMs = nextDelay(call.delayMs, call.config)]

(***************************************************************************)
(* SpecRetry: one RetryDecorator.execute call                              *)
(***************************************************************************)
MaxAttempts == 3

\* The Partial<RetryConfig> values a caller passes: none, or all four
\* numbers, with or without a retryableErrors predicate.
RetryConfigs ==
  { numbers @@ predicate :
      numbers \in {<<>>} \cup
                  [maxAttempts : 0..MaxAttempts, initialDelayMs : {1, 2},
                   maxDelayMs : {1, 3}, backoffMultiplier : {1, 2}],
      predicate \in {<<>>, [retryableErrors |-> "transient-only"]} }

\* What call number n of fn throws: an Error or a string.
ThrownBy(n) ==
  { [kind |-> kind, message |-> message, call |-> n] :
      kind \in {"Error", "string"}, message \in {"transient", "fatal"} }

InitRetry ==
  /\ ManagerIdle
  /\ FingerprintIdle
  /\ SnapshotIdle
  /\ SecretsIdle
  /\ LoadIdle
  /\ PluginsIdle
  /\ DoctorIdle
  /\ ResolverIdle
  /\ BreakerIdle
  /\ TransactionIdle
  /\ ChangesIdle
  /\ PipelineIdle
  /\ IntegrationsIdle
  /\ RetryIdle

\* execute(fn, config)
RetryExecute ==
  /\ retry = NoResult
  /\ \E config \in RetryConfigs : retry' = retryExecute(config)
  /\ UNCHANGED retryLog
  /\ UNCHANGED outsideRetry

\* The awaited call of fn resolves: its value is returned.
AttemptResolves ==
  /\ retry # NoResult
  /\ retry.pc = "calling"
  /\ LET value == [value |-> "value", call |-> retry.attempt]
     IN  /\ retry' = [retry EXCEPT !.pc = "done", !.result = Resolved(value)]
         /\ retryLog' = [retryLog EXCEPT !.calls = Append(@, Resolved(value))]
  /\ UNCHANGED outsideRetry

\* The awaited call of fn rejects: the catch block.
AttemptRejects ==
  /\ retry # NoResult
  /\ retry.pc = "calling"
  /\ \E value \in ThrownBy(retry.attempt) :
       /\ retry' = retryCatch(retry, value)
       /\ retryLog' = [retryLog EXCEPT
            !.calls = Append(@, Rejected(value)),
            !.waits = IF retry'.pc = "waiting" THEN Append(@, retry'.delayMs) ELSE @]
  /\ UNCHANGED outsideRetry

\* The timer of delay(delayMs) fires: the next turn of the loop.
DelayEnds ==
  /\ retry # NoResult
  /\ retry.pc = "waiting"
  /\ retry' = attemptOrGiveUp(retry, retry.attempt + 1)
  /\ UNCHANGED retryLog
  /\ UNCHANGED outsideRetry

NextRetry ==
  \/ RetryExecute
  \/ AttemptResolves
  \/ AttemptRejects
  \/ DelayEnds

SpecRetry == InitRetry /\ [][NextRetry]_vars

\* Timers fire and every call of fn settles, so a step that can be taken is
\* not put off for ever.
SpecRetryFair == SpecRetry /\ WF_vars(NextRetry)

(***************************************************************************)
(* Properties                                                              *)
(***************************************************************************)
Layers == Hierarchies(baseSpec)

Registered(name) == MapHas(environments, name)

\* An optional property as a sequence: <<>> when undefined, <<value>> otherwise.
Opt(obj, f) == IF Has(obj, f) THEN <<obj[f]>> ELSE <<>>

OverrideOf(hierarchy, f) ==
  IF Has(hierarchy, "overrides") THEN Opt(hierarchy.overrides, f) ELSE <<>>

\* Layer i is the processed layer that last wrote the registry entry of its name.
Current(i) == \A j \in (i + 1)..built : Layers[j].name # Layers[i].name

\* C1: a resolved layer has the layer's name, and each overridable field is
\* the override's value when the overrides define it (empty values included)
\* and the parent's value, or absence, otherwise; nothing is concatenated.
C1_OverrideReplacesField ==
  built >= 1 =>
    LET hierarchy == Layers[built]
        parent == parents[built]
        resolved == getEnvironment(environments, hierarchy.name)
    IN  /\ resolved.name = hierarchy.name
        /\ \A f \in OverridableFields :
             Opt(resolved, f) =
               IF OverrideOf(hierarchy, f) # <<>>
                 THEN OverrideOf(hierarchy, f)
                 ELSE Opt(parent, f)

\* A layer was resolved whose overrides replace a defined parent array by
\* the empty array and leave another parent field alone.
C1_Witness ==
  /\ built >= 1
  /\ OverrideOf(Layers[built], "secrets") = << <<>> >>
  /\ OverrideOf(Layers[built], "description") = <<>>
  /\ Opt(parents[built], "secrets") = << <<S0>> >>
  /\ Opt(parents[built], "description") = <<"root">>

\* The layer about to be processed has no usable extends and no overrides.
FallsBackPlain(hierarchy) ==
  /\ ~Has(hierarchy, "extends") \/ ~Registered(hierarchy.extends)
  /\ ~Has(hierarchy, "overrides")

\* C2: a layer without overrides whose extends is absent or not registered
\* when the layer is processed resolves to the base spec with only the name
\* replaced by the layer's name.
C2_FallbackToBase ==
  [][ (pc = "building" /\ FallsBackPlain(Layers[built + 1])) =>
        LET n == Layers[built + 1].name
            resolved == getEnvironment(environments', n)
        IN  /\ resolved.name = n
            /\ DOMAIN resolved = DOMAIN baseSpec
            /\ \A f \in DOMAIN baseSpec \ {"name"} : resolved[f] = baseSpec[f] ]_vars

\* A layer with an unregistered extends and no overrides was resolved after
\* another layer had put overridden values into the registry.
C2_Witness ==
  /\ built = 2
  /\ Has(Layers[2], "extends") /\ ~Has(Layers[2], "overrides")
  /\ ~Registered(Layers[2].extends)
  /\ Layers[2].name # baseSpec.name
  /\ Has(Layers[1], "overrides")
  /\ Has(baseSpec, "region")

\* Layer i extends a name that only a later layer declares.
ExtendsLater(i) ==
  /\ Has(Layers[i], "extends")
  /\ \A j \in 1..(i - 1) : Layers[j].name # Layers[i].extends
  /\ \E j \in (i + 1)..Len(Layers) : Layers[j].name = Layers[i].extends

\* C3: a layer whose extends names a layer declared later is resolved
\* against the base and keeps that resolution while later layers, the
\* extended one included, are processed.
C3_SinglePassInOrder ==
  \A i \in 1..built :
    (ExtendsLater(i) /\ Current(i)) =>
      /\ parents[i] = baseSpec
      /\ \A f \in OverridableFields :
           Opt(getEnvironment(environments, Layers[i].name), f) =
             IF OverrideOf(Layers[i], f) # <<>>
               THEN OverrideOf(Layers[i], f)
               ELSE Opt(baseSpec, f)

Reverse(seq) == [i \in 1..Len(seq) |-> seq[Len(seq) + 1 - i]]

\* Construction is over, a layer extending a later-declared layer kept the
\* base's value of a field that the later layer overrides, and the same
\* layers declared in the opposite order resolve that layer differently.
C3_Witness ==
  /\ pc = "ready" /\ built = 2
  /\ ExtendsLater(1)
  /\ Layers[1].name # Layers[2].name
  /\ ~Has(Layers[1], "overrides")
  /\ OverrideOf(Layers[2], "secrets") # <<>>
  /\ getEnvironment(environments, Layers[1].name)
       # getEnvironment(buildEnvironmentHierarchy(baseSpec, Reverse(Layers)),
                        Layers[1].name)

\* Every extends names the base or a layer declared earlier.
AncestorsFirst ==
  \A i \in 1..Len(Layers) :
    Has(Layers[i], "extends") =>
      \/ Layers[i].extends = baseSpec.name
      \/ \E j \in 1..(i - 1) : Layers[j].name = Layers[i].extends

\* The layer that layer i extends: the latest earlier layer of that name,
\* 0 for the base.
ChainParent(i) ==
  IF ~Has(Layers[i], "extends") THEN 0
  ELSE LET earlier == { j \in 1..(i - 1) : Layers[j].name = Layers[i].extends }
       IN  IF earlier = {} THEN 0
           ELSE CHOOSE j \in earlier : \A k \in earlier : k <= j

\* The field as a walk up the extends chain of layer i finds it: the
\* override of the nearest layer defining it, else the base's value.
RECURSIVE ChainValue(_, _)
ChainValue(i, f) ==
  IF i = 0 THEN Opt(baseSpec, f)
  ELSE IF OverrideOf(Layers[i], f) # <<>> THEN OverrideOf(Layers[i], f)
  ELSE ChainValue(ChainParent(i), f)

\* C4: when every extends target is declared before the layer that extends
\* it, each overridable field of a resolved layer is what the walk up its
\* extends chain finds.
C4_AgreesWithChainWalk ==
  AncestorsFirst =>
    \A i \in 1..built :
      Current(i) =>
        \A f \in OverridableFields :
          Opt(getEnvironment(environments, Layers[i].name), f) = ChainValue(i, f)

\* grandchild extends child extends base: the grandchild has a field from
\* the child's overrides that neither the base nor its own overrides give it.
C4_Witness ==
  /\ pc = "ready" /\ built = 2 /\ AncestorsFirst
  /\ Layers[1].name = "a" /\ Layers[2].name = "b"
  /\ Has(Layers[2], "extends") /\ Layers[2].extends = "a"
  /\ OverrideOf(Layers[1], "description") = <<"">>
  /\ OverrideOf(Layers[2], "description") = <<>>
  /\ OverrideOf(Layers[2], "toolchains") # <<>>
  /\ Opt(getEnvironment(environments, "b"), "description") = <<"">>
  /\ Opt(baseSpec, "description") # <<"">>

\* C5 as claimed: once construction is over, the entry of the base's name is
\* the unmodified base spec, whatever the layers are named.
C5_BaseAlwaysUnmodified ==
  pc = "ready" => getEnvironment(environments, baseSpec.name) = baseSpec

NoLayerNamedLikeBase == \A i \in 1..Len(Layers) : Layers[i].name # baseSpec.name

\* C5 amended: when no layer is named like the base, the entry of the base's
\* name is present and is the unmodified base spec, during and after
\* construction.
C5_BaseUnmodified ==
  (pc # "new" /\ NoLayerNamedLikeBase) =>
    /\ Registered(baseSpec.name)
    /\ DOMAIN getEnvironment(environments, baseSpec.name) = DOMAIN baseSpec
    /\ \A f \in DOMAIN baseSpec :
         getEnvironment(environments, baseSpec.name)[f] = baseSpec[f]

\* Two layers with overrides, none named like the base, were resolved.
C5_Witness ==
  /\ pc = "ready" /\ built = 2 /\ NoLayerNamedLikeBase
  /\ Has(Layers[1], "overrides") /\ Has(Layers[2], "overrides")
  /\ Has(Layers[2], "extends") /\ Layers[2].extends = baseSpec.name

\* The extends declared for a name: that of the first layer of that name.
DeclaredExtends(name) ==
  LET hit == { i \in 1..Len(Layers) : Layers[i].name = name }
  IN  IF hit = {} THEN <<>>
      ELSE Opt(Layers[CHOOSE i \in hit : \A j \in hit : i <= j], "extends")

\* k extends references can be followed from the name, each one leading to
\* a registered environment.
RECURSIVE CanFollow(_, _)
CanFollow(name, k) ==
  \/ k = 0
  \/ /\ DeclaredExtends(name) # <<>>
     /\ Registered(DeclaredExtends(name)[1])
     /\ CanFollow(DeclaredExtends(name)[1], k - 1)

\* Following the declared extends references from the name visits some name
\* twice: with N registered names, N steps visit N + 1 names.
Revisits(name) == CanFollow(name, Len(environments))

Validated == result.op = "validateEnvironments"

\* C6: validation fails exactly when the declared extends chain of some
\* registered environment visits a name twice, and valid is true exactly
\* when errors is empty.
C6_InvalidIffDeclaredCycle ==
  Validated =>
    /\ result.value.valid = FALSE
         <=> \E name \in Range(listEnvironments(environments)) : Revisits(name)
    /\ result.value.valid = TRUE <=> result.value.errors = <<>>

\* a extends b and b extends a were validated.
C6_Witness ==
  /\ Validated
  /\ DeclaredExtends("a") = <<"b">> /\ DeclaredExtends("b") = <<"a">>
  /\ result.value.valid = FALSE

MessagesOf(names) == [i \in 1..Len(names) |-> CircularMessage(names[i])]

\* C7: errors holds one message per registered environment whose chain
\* revisits a name, naming that environment, in registry order.
C7_OneMessagePerCircularStart ==
  Validated =>
    result.value.errors =
      MessagesOf(SelectSeq(listEnvironments(environments), Revisits))

\* Validation went on after its first error: the base is fine, the two
\* layers are reported in declaration order.
C7_Witness ==
  /\ Validated
  /\ Len(environments) = 3
  /\ ~Revisits(baseSpec.name)
  /\ Len(result.value.errors) = 2
  /\ result.value.errors[1] = CircularMessage(Layers[1].name)

\* The target is the name itself or is reached from it by at most k
\* declared extends references between registered environments.
RECURSIVE Reaches(_, _, _)
Reaches(name, target, k) ==
  \/ name = target
  \/ /\ k > 0
     /\ DeclaredExtends(name) # <<>>
     /\ Registered(DeclaredExtends(name)[1])
     /\ Reaches(DeclaredExtends(name)[1], target, k - 1)

\* Layer i is the first of its name and extends a name that was not
\* registered when it was processed, registered since, from which the
\* declared extends references lead back to the layer.
DeclaredCycleOverFallback(i) ==
  /\ \A j \in 1..(i - 1) : Layers[j].name # Layers[i].name
  /\ Has(Layers[i], "extends")
  /\ Layers[i].extends # baseSpec.name
  /\ \A j \in 1..(i - 1) : Layers[j].name # Layers[i].extends
  /\ Registered(Layers[i].extends)
  /\ Reaches(Layers[i].extends, Layers[i].name, Len(environments))

\* C8: the validator follows the declared extends of a layer also when
\* resolution could not: a layer that was resolved against the base by
\* fallback and lies on a declared cycle is reported.
C8_WalkFollowsDeclarations ==
  Validated =>
    \A i \in 1..Len(Layers) :
      DeclaredCycleOverFallback(i) =>
        /\ parents[i] = baseSpec
        /\ CircularMessage(Layers[i].name) \in Range(result.value.errors)

\* a extends the later-declared b, b extends a: a was merged onto the base,
\* inherits nothing from b, and is reported.
C8_Witness ==
  /\ Validated
  /\ Len(Layers) = 2 /\ Layers[1].name = "a" /\ Layers[2].name = "b"
  /\ DeclaredCycleOverFallback(1)
  /\ OverrideOf(Layers[2], "toolchains") # <<>>
  /\ Opt(getEnvironment(environments, "a"), "toolchains") = Opt(baseSpec, "toolchains")
  /\ CircularMessage("a") \in Range(result.value.errors)

Promoted == result.op = "promoteEnvironment"

\* C9: a promotion between registered names is named "<from>-to-<to>", has
\* the source's secrets and toolchains where the source defines them, and
\* the target's value, or absence, of every other field.
C9_PromotionCopiesSecretsAndToolchains ==
  (Promoted /\ Registered(result.from) /\ Registered(result.to)) =>
    LET source == getEnvironment(environments, result.from)
        target == getEnvironment(environments, result.to)
        promoted == result.value
    IN  /\ promoted.name = result.from \o "-to-" \o result.to
        /\ \A f \in {"secrets", "toolchains"} :
             Has(source, f) => Opt(promoted, f) = Opt(source, f)
        /\ \A f \in {"description", "policies", "checks", "environments",
                     "region", "backup"} :
             Opt(promoted, f) = Opt(target, f)

\* Source and target differ in secrets, toolchains, description and policies.
C9_Witness ==
  /\ Promoted /\ Registered(result.from) /\ Registered(result.to)
  /\ result.from # result.to
  /\ LET source == getEnvironment(environments, result.from)
         target == getEnvironment(environments, result.to)
     IN  /\ Has(source, "secrets") /\ Has(source, "toolchains")
         /\ Opt(source, "secrets") # Opt(target, "secrets")
         /\ Opt(source, "toolchains") # Opt(target, "toolchains")
         /\ Opt(source, "description") # Opt(target, "description")
         /\ Opt(source, "policies") # Opt(target, "policies")
         /\ Has(target, "region")

\* C10: promoteEnvironment returns null exactly when from or to is not a
\* registered name.
C10_NullIffUnregistered ==
  Promoted =>
    (result.value = Null <=> ~(Registered(result.from) /\ Registered(result.to)))

\* A promotion from a registered to an unregistered name returned null.
C10_Witness ==
  /\ Promoted
  /\ Registered(result.from) /\ ~Registered(result.to)
  /\ result.value = Null

\* C11: when the resolved source of a promotion between registered names
\* does not define secrets (toolchains), the promoted spec has the target's
\* secrets (toolchains), or lacks the field where the target lacks it.
C11_UndefinedOnSourceKeepsTarget ==
  (Promoted /\ Registered(result.from) /\ Registered(result.to)) =>
    LET source == getEnvironment(environments, result.from)
        target == getEnvironment(environments, result.to)
    IN  \A f \in {"secrets", "toolchains"} :
          ~Has(source, f) => Opt(result.value, f) = Opt(target, f)

\* A source without secrets was promoted onto a target that has secrets and
\* whose toolchains differ from the source's.
C11_Witness ==
  /\ Promoted /\ Registered(result.from) /\ Registered(result.to)
  /\ LET source == getEnvironment(environments, result.from)
         target == getEnvironment(environments, result.to)
     IN  /\ ~Has(source, "secrets") /\ Has(source, "toolchains")
         /\ Has(target, "secrets") /\ target.secrets # <<>>
         /\ Opt(source, "toolchains") # Opt(target, "toolchains")
         /\ result.value.secrets = target.secrets

\* C12: once the constructor has finished, no call changes the registry:
\* the names, their order and their specs stay what they were, and every
\* promotion name "<from>-to-<to>" is looked up with the same answer after a
\* step as before it.
C12_RegistryReadOnly ==
  [][ pc = "ready" =>
        /\ listEnvironments(environments') = listEnvironments(environments)
        /\ getAllEnvironments(environments') = getAllEnvironments(environments)
        /\ \A from \in LookupNames, to \in LookupNames :
             getEnvironment(environments', from \o "-to-" \o to)
               = getEnvironment(environments, from \o "-to-" \o to) ]_vars

\* A promotion returned a spec, and the manager does not know its name.
C12_Witness ==
  /\ Promoted /\ result.value # Null
  /\ result.value.name = result.from \o "-to-" \o result.to
  /\ getEnvironment(environments, result.value.name) = Undefined
  /\ Len(environments) = 3

\* name is the base's name or the name of a declared layer.
Declared(name) ==
  name = baseSpec.name \/ \E i \in 1..Len(Layers) : Layers[i].name = name

\* The spec a declared name stands for after construction: the merge of the
\* last layer declared under that name with the parent found for it, and
\* the base spec when no layer has that name.
ResolvedSpec(name) ==
  LET layers == { i \in 1..Len(Layers) : Layers[i].name = name }
  IN  IF layers = {} THEN baseSpec
      ELSE LET i == CHOOSE j \in layers : \A k \in layers : k <= j
           IN  mergeHierarchySpec(parents[i], Layers[i])

\* C13: getEnvironment returns the resolved spec of a declared name and
\* undefined for every other name; it always returns.
C13_LookupReturnsSpecOrUndefined ==
  result.op = "getEnvironment" =>
    IF Declared(result.name)
      THEN result.value = ResolvedSpec(result.name) /\ result.value.name = result.name
      ELSE result.value = Undefined

\* Both outcomes on one manager: the lookup of an undeclared name returned
\* undefined while a layer with overrides is registered.
C13_Witness ==
  /\ result.op = "getEnvironment"
  /\ ~Declared(result.name) /\ result.value = Undefined
  /\ Len(Layers) = 2 /\ Has(Layers[1], "overrides")

\* seq without the repetitions of an element that occurred before.
FirstOccurrences(seq) ==
  LET first(i) == \A j \in 1..(i - 1) : seq[j] # seq[i]
      kept == { i \in 1..Len(seq) : first(i) }
      nth(n) == CHOOSE i \in kept : Cardinality({ j \in kept : j < i }) = n - 1
  IN  [n \in 1..Cardinality(kept) |-> seq[nth(n)]]

\* The base's name followed by the layers' names as declared.
DeclaredNames == <<baseSpec.name>> \o [i \in 1..Len(Layers) |-> Layers[i].name]

\* C14: listEnvironments returns the base's name followed by the layers'
\* names in declaration order (a name declared again keeps its first
\* place), and getAllEnvironments returns, position by position, the specs
\* registered under those names.
C14_InsertionOrder ==
  /\ result.op = "listEnvironments" => result.value = FirstOccurrences(DeclaredNames)
  /\ result.op = "getAllEnvironments" =>
       /\ Len(result.value) = Len(FirstOccurrences(DeclaredNames))
       /\ \A i \in 1..Len(result.value) :
            result.value[i] = ResolvedSpec(FirstOccurrences(DeclaredNames)[i])

\* Three names were listed, base first, with the layers declared against
\* alphabetical order.
C14_Witness ==
  /\ result.op = "listEnvironments"
  /\ result.value = <<"base", "b", "a">>

\* The two objects have the same keys with the same values, whatever the
\* order of their own keys.
SameTopLevel(a, b) == Range(a.members) = Range(b.members)

\* C15: two calls of fingerprintSpec whose arguments have the same top-level
\* keys and values, in the same or in a different key order, return the same
\* fingerprint.
C15_TopLevelOrderInvariant ==
  \A i, j \in 1..Len(fpCalls) :
    SameTopLevel(fpCalls[i].spec, fpCalls[j].spec) =>
      fpCalls[i].fingerprint = fpCalls[j].fingerprint

\* The test's case: name, description, toolchains against toolchains, name,
\* description, fingerprinted one after the other.
C15_Witness ==
  /\ Len(fpCalls) = 2
  /\ ObjectKeys(fpCalls[1].spec) = <<"name", "description", "toolchains">>
  /\ ObjectKeys(fpCalls[2].spec) = <<"toolchains", "name", "description">>
  /\ SameTopLevel(fpCalls[1].spec, fpCalls[2].spec)
  /\ fpCalls[1].fingerprint = fpCalls[2].fingerprint

\* A value without the order of its objects' keys: an object is the set of
\* its members.
RECURSIVE Unordered(_)
Unordered(value) ==
  CASE value.type = "object" ->
         [type |-> "object",
          members |-> { Member(m.key, Unordered(m.value)) : m \in Range(value.members) }]
    [] value.type = "array" ->
         [type |-> "array",
          items |-> [i \in 1..Len(value.items) |-> Unordered(value.items[i])]]
    [] OTHER -> value

\* C16: two fingerprinted specs that differ in their key set or in a field
\* value at any depth have different fingerprints.
C16_DifferentSpecsDifferentFingerprints ==
  \A i, j \in 1..Len(fpCalls) :
    Unordered(fpCalls[i].spec) # Unordered(fpCalls[j].spec) =>
      fpCalls[i].fingerprint # fpCalls[j].fingerprint

\* C17: two fingerprinted specs with the same keys and values at every depth
\* of which a nested object has its keys in a different insertion order have
\* different canonical serializations.
C17_NestedOrderIsKept ==
  \A i, j \in 1..Len(fpCalls) :
    ( /\ Unordered(fpCalls[i].spec) = Unordered(fpCalls[j].spec)
      /\ ~SameTopLevel(fpCalls[i].spec, fpCalls[j].spec) ) =>
      fpCalls[i].fingerprint # fpCalls[j].fingerprint

\* The snapshot file of a working directory.
LockFile(cwd) == files[PathJoin(cwd, SNAPSHOT_FILE)]

C19_SnapshotOfSpec ==
  /\ \A cwd \in Cwds :
       returned[cwd] # NoResult =>
         /\ Get(returned[cwd].snapshot, "spec") = returned[cwd].spec
         /\ Get(returned[cwd].snapshot, "fingerprint")
              = JString(fingerprintSpec(returned[cwd].spec))
         /\ LockFile(cwd) = File(JSONStringify(returned[cwd].snapshot, NoReplacer, 2))
  /\ \A c1 \in Cwds, c2 \in Cwds :
       ( /\ returned[c1] # NoResult /\ returned[c2] # NoResult
         /\ returned[c1].spec = returned[c2].spec ) =>
         Get(returned[c1].snapshot, "fingerprint") = Get(returned[c2].snapshot, "fingerprint")

\* The same spec with a toolchain was snapshotted in both working
\* directories at different times.
C19_Witness ==
  /\ returned["/w1"] # NoResult /\ returned["/w2"] # NoResult
  /\ returned["/w1"].spec = returned["/w2"].spec
  /\ HasKey(returned["/w1"].spec, "toolchains")
  /\ Get(returned["/w1"].snapshot, "createdAt") # Get(returned["/w2"].snapshot, "createdAt")
  /\ Get(returned["/w1"].snapshot, "fingerprint") = Get(returned["/w2"].snapshot, "fingerprint")

\* The (provider, path) pairs of the broker's entries.
SecretPairs == { <<secret.provider, secret.path>> : secret \in Range(broker.providers) }

\* C20: a fetchAll that returns has one entry per distinct (provider, path)
\* pair of the spec's secrets, each entry under "provider:path", the
\* placeholder as value where the provider is not configured, and no entry
\* for a spec without secrets.
C20_OneEntryPerDistinctPair ==
  (broker # NoResult /\ fetched # NoResult /\ fetched.status = "resolved") =>
    /\ Len(fetched.value) = Cardinality(SecretPairs)
    /\ ~Has(secretsSpec, "secrets") => fetched.value = <<>>
    /\ \A secret \in Range(broker.providers) :
         /\ MapHas(fetched.value, secret.provider \o ":" \o secret.path)
         /\ secret.provider \notin broker.secretsProviders =>
              MapGet(fetched.value, secret.provider \o ":" \o secret.path)
                = "placeholder-secret-for-" \o secret.provider \o ":" \o secret.path

\* The file that the last loadSpec call read.
LoadedFile ==
  specFiles[IF loaded.specPath.absolute THEN loaded.specPath.path
            ELSE PathJoin(loaded.cwd, loaded.specPath.path)]

\* What the parser for the extension of the loaded path makes of the file.
LoadedParse ==
  IF loaded.specPath.extension = ".json"
    THEN JSONParse(LoadedFile.text, LoadableTexts)
    ELSE parseYaml(LoadedFile.text)

\* value is an object with a non-empty string as name.
WellFormedSpec(value) ==
  /\ value.type = "object"
  /\ \E i \in 1..Len(value.members) :
       /\ value.members[i].key = "name"
       /\ value.members[i].value.type = "string"
       /\ value.members[i].value.value # ""

\* C21: loadSpec rejects a missing file with spec_not_found, a text that its
\* parser does not accept with spec_parse_error, a parsed value that is no
\* object with a non-empty string name with spec_invalid, and returns a
\* value only when it is an object with a non-empty string name.
C21_LoadSpecRejectsMalformed ==
  loaded # NoResult =>
    /\ LoadedFile = NoFile => loaded.outcome = Rejected("envkit/spec_not_found")
    /\ (LoadedFile \notin {NoFile, Directory} /\ ~LoadedParse.ok) =>
         loaded.outcome = Rejected("envkit/spec_parse_error")
    /\ (LoadedFile \notin {NoFile, Directory} /\ LoadedParse.ok
          /\ ~WellFormedSpec(LoadedParse.value)) =>
         loaded.outcome = Rejected("envkit/spec_invalid")
    /\ loaded.outcome.status = "resolved" => WellFormedSpec(loaded.outcome.value)

\* A file whose name is a number was loaded and rejected as invalid.
C21_Witness ==
  /\ loaded # NoResult
  /\ LoadedFile = File("{\"name\":5}")
  /\ loaded.outcome = Rejected("envkit/spec_invalid")

\* The hooks an event has registered: the own array of the registry, if any.
RegisteredFor(event) ==
  IF Has(hooks, event) THEN hooks[event] ELSE <<>>

\* The hooks the call in flight has called so far, in call order.
Started ==
  LET starts == SelectSeq(invocations, LAMBDA i : i.at = "start")
  IN  [i \in 1..Len(starts) |-> starts[i].hook]

\* C22: run(event, context) calls the hooks registered for the event and no
\* others, in registration order, each called only after the one before it
\* completed, all with the context of the call; a run whose hooks all complete
\* has called every one of them exactly once, and a run of an event without
\* registered hooks resolves.  (Stated for runs during which nothing is
\* registered; a rejecting hook ends the run, which is not a resolved run.)
C22_RunInvokesRegisteredHooks ==
  running # NoResult =>
    /\ \A i \in 1..Len(invocations) :
         /\ invocations[i].context = running.context
         /\ invocations[i].at = (IF i % 2 = 1 THEN "start" ELSE "end")
         /\ i % 2 = 0 => invocations[i].hook = invocations[i - 1].hook
    /\ Len(Started) <= Len(RegisteredFor(running.event))
    /\ \A i \in 1..Len(Started) : Started[i] = RegisteredFor(running.event)[i]
    /\ (running.quiet /\ running.status = "resolved") =>
         Started = RegisteredFor(running.event)
    /\ (running.quiet /\ RegisteredFor(running.event) = <<>>) =>
         running.status \in {"iterating", "resolved"}

ReportResults == Get(report, "results").items

ReportSummary(field) == Get(Get(report, "summary"), field).number

HoldsCycle(layers) ==
  \E i, j \in 1..Len(layers) :
    /\ Has(layers[i], "extends") /\ Has(layers[j], "extends")
    /\ layers[i].extends = layers[j].name
    /\ layers[j].extends = layers[i].name

\* C25 as stated: a validated resolver whose hierarchies argument holds a cycle
\* is invalid, whatever the base spec's environments field is.
C25_CycleAmongGivenLayersDetected ==
  (resolverPc = "validated" /\ HoldsCycle(resolverHierarchies)) =>
    validation.valid = FALSE

\* The first layer declared under the name in the base spec's environments
\* field extends the target, and both names are registered.
FirstDeclaredExtends(name, target) ==
  /\ MapHas(resolverEnvironments, name) /\ MapHas(resolverEnvironments, target)
  /\ FindHierarchy(resolverBase, name) # <<>>
  /\ Truthy(FindHierarchy(resolverBase, name)[1], "extends")
  /\ FindHierarchy(resolverBase, name)[1].extends = target

\* C25: validateHierarchy detects a cycle among the layers declared in the
\* base spec's own environments field: when, for two registered names a and b,
\* the first layer declared there as a extends b and the first declared as b
\* extends a, the result is invalid and names a; the layers passed as the
\* constructor's hierarchies argument are not consulted, so a resolver whose
\* base spec has no environments field is always valid.
C25_CycleAmongDeclaredLayersDetected ==
  resolverPc = "validated" =>
    /\ \A a, b \in LayerNames :
         (FirstDeclaredExtends(a, b) /\ FirstDeclaredExtends(b, a)) =>
           /\ validation.valid = FALSE
           /\ CircularMessage(a) \in Range(validation.errors)
    /\ ~Has(resolverBase, "environments") => validation.valid = TRUE

\* A cycle declared in the base spec's environments field was reported by a
\* resolver that was given other layers.
C25_Witness ==
  /\ resolverPc = "validated"
  /\ FirstDeclaredExtends("a", "b") /\ FirstDeclaredExtends("b", "a")
  /\ resolverHierarchies # resolverBase.environments
  /\ validation.valid = FALSE

\* The names a walk has visited are registered and pairwise different.
VisitedOnce ==
  /\ \A i \in 1..Len(walk.visited) : MapHas(resolverEnvironments, walk.visited[i])
  /\ \A i, j \in 1..Len(walk.visited) : walk.visited[i] = walk.visited[j] => i = j

\* C26: the constructor's loop runs once per layer, every walk of
\* validateHierarchy adds one name to visited per step until it stops, so that
\* it takes at most one step more than there are registered names, and
\* construction followed by validation comes to an end.
C26_ConstructionAndValidationTerminate ==
  /\ [](/\ resolverBuilt <= Len(resolverHierarchies)
        /\ walk # NoResult =>
             /\ VisitedOnce
             /\ walk.steps <= Len(resolverEnvironments) + 1
             /\ walk.steps = Len(walk.visited)
                             + (IF walk.done /\ Len(walk.errors) > 0
                                     /\ walk.errors[Len(walk.errors)]
                                          = CircularMessage(resolverEnvironments[walk.entry].key)
                                   THEN 1 ELSE 0))
  /\ <>(resolverPc = "validated")

\* A walk over a cycle through every registered name took one step more than
\* there are names.
C26_Witness ==
  /\ resolverPc = "validating"
  /\ Len(resolverEnvironments) >= 2
  /\ walk.done
  /\ walk.steps = Len(resolverEnvironments) + 1

\* readJson of the snapshot file of a working directory.
ReadBack(cwd) == readJson(files, PathJoin(cwd, SNAPSHOT_FILE))

C28_StoredUnderOwnName ==
  LET names == listEnvironments(environments)
  IN  /\ \A i \in 1..Len(names) : getEnvironment(environments, names[i]).name = names[i]
      /\ \A i, j \in 1..Len(names) : names[i] = names[j] => i = j

\* Two layers were declared under one name and one layer under the name of
\* the base.
C28_Witness ==
  /\ pc = "ready"
  /\ Len(Layers) = 2
  /\ Layers[1].name = BaseName
  /\ Layers[2].name = BaseName
  /\ Has(Layers[2], "overrides")
  /\ listEnvironments(environments) = <<BaseName>>

NotOverridable == {"environments", "region", "backup"}

\* C29: the fields that no layer can override are, in every registered
\* environment, those of the base spec, so that looking a name up in a
\* registered environment's environments list finds what the base spec
\* declares.
C29_NotOverridableFromBase ==
  \A i \in 1..Len(environments) :
    /\ \A f \in NotOverridable : Opt(environments[i].value, f) = Opt(baseSpec, f)
    /\ \A name \in LayerNames :
         FindHierarchy(environments[i].value, name) = FindHierarchy(baseSpec, name)

\* A layer with overrides that extends an earlier layer with overrides was
\* resolved from a base that has a region and a backup.
C29_Witness ==
  /\ pc = "ready"
  /\ Has(baseSpec, "region") /\ Has(baseSpec, "backup")
  /\ Len(Layers) = 2
  /\ Has(Layers[1], "overrides") /\ Has(Layers[2], "overrides")
  /\ Has(Layers[2], "extends") /\ Layers[2].extends = Layers[1].name
  /\ Layers[2].name # Layers[1].name
  /\ Len(environments) = 3

\* C30: when the last failureThreshold calls that settled all failed, with no
\* success and no reset() between them, the breaker is open once the last of
\* them has failed, whether it was closed or half-open until then.
C30_OpenAfterThresholdFailures ==
  ( /\ lastCall # NoResult
    /\ lastCall.op = "execute" /\ lastCall.outcome = "failure"
    /\ streak >= breaker.config.failureThreshold ) =>
    breaker.state = OPEN

\* The time since the breaker's last failure is shorter than its reset timeout.
WithinResetTimeout ==
  /\ breaker.lastFailureTime # <<>>
  /\ breakerClock - breaker.lastFailureTime[1] < breaker.config.resetTimeoutMs

\* The step is the part of execute(fn) that runs before fn would be called.
ExecuteStep ==
  /\ lastCall'.op = "execute"
  /\ lastCall'.outcome \in {"open", "called"}

\* C31: execute(fn) on a breaker that is open, with less than resetTimeoutMs
\* gone since the last failure, does not call fn, rejects with the "Circuit
\* breaker is open" error and leaves state, failureCount and successCount as
\* they were.
C31_OpenBreakerRejectsWithoutCalling ==
  [][ (breaker.state = OPEN /\ WithinResetTimeout /\ ExecuteStep) =>
        /\ pending' = pending
        /\ lastCall'.outcome = "open"
        /\ breaker'.state = OPEN
        /\ breaker'.failureCount = breaker.failureCount
        /\ breaker'.successCount = breaker.successCount ]_vars

\* A breaker with a reset timeout of 2 rejected a call one millisecond after
\* the failure that opened it.
C31_Witness ==
  /\ lastCall # NoResult
  /\ lastCall.op = "execute" /\ lastCall.outcome = "open"
  /\ breaker.state = OPEN
  /\ breaker.config.resetTimeoutMs = 2
  /\ breaker.lastFailureTime # <<>>
  /\ breakerClock - breaker.lastFailureTime[1] = 1

\* C32: the state changes only from closed to open when a failure brings the
\* failure count to failureThreshold, from open to half-open when
\* resetTimeoutMs has passed since the last failure, from half-open to closed
\* when successThreshold successes were recorded since it became half-open,
\* and from any state to closed by reset(); the success count is 0 whenever
\* the state is closed or open.
C32_StateChangesAlongTheCycle ==
  [][ /\ breaker.state # breaker'.state =>
           \/ /\ breaker.state = CLOSED /\ breaker'.state = OPEN
              /\ lastCall'.op = "execute" /\ lastCall'.outcome = "failure"
              /\ breaker.failureCount < breaker.config.failureThreshold
              /\ breaker'.failureCount = breaker.config.failureThreshold
           \/ /\ breaker.state = OPEN /\ breaker'.state = HALF_OPEN
              /\ breaker.lastFailureTime # <<>>
              /\ breakerClock - breaker.lastFailureTime[1]
                   >= breaker.config.resetTimeoutMs
           \/ /\ breaker.state = HALF_OPEN /\ breaker'.state = CLOSED
              /\ lastCall'.op = "execute" /\ lastCall'.outcome = "success"
              /\ trialSuccesses' = breaker.config.successThreshold
           \/ /\ breaker'.state = CLOSED
              /\ lastCall'.op = "reset"
      /\ breaker'.state \in {CLOSED, OPEN} => breaker'.successCount = 0 ]_vars

\* A half-open breaker with a success threshold of 2 closed on its second
\* success.
C32_Witness ==
  /\ lastCall # NoResult
  /\ lastCall.op = "execute" /\ lastCall.outcome = "success"
  /\ lastCall.from = HALF_OPEN
  /\ breaker.state = CLOSED
  /\ breaker.config.successThreshold = 2
  /\ trialSuccesses = 2

\* The functions of the compensations run so far.
CompensatedFns == { compensated[i].fn : i \in 1..Len(compensated) }

\* C33: executeWithRollback(operation, compensation) has settled: when the
\* operation rejected, the supplied compensation was run and the call
\* rejected with the operation's error; when the operation resolved, the
\* transaction is committed and the supplied compensation was not run.
C33_RollsBackWithSuppliedCompensation ==
  (helper.pc = "done" /\ helper.compensation = SuppliedCompensation) =>
    IF helper.operation = "rejected"
      THEN /\ SuppliedCompensation \in CompensatedFns
           /\ helper.outcome = "rejected"
           /\ helper.error = "operation-error"
      ELSE /\ ~transaction.active
           /\ transaction.compensations = <<>>
           /\ SuppliedCompensation \notin CompensatedFns

\* The compensations of seq from the last to the first, as rollback records
\* them when each is run once.
LastToFirst(seq) ==
  [i \in 1..Len(seq) |->
     [index |-> Len(seq) + 1 - i, fn |-> seq[Len(seq) + 1 - i]]]

\* The compensations run so far, without their outcomes.
CompensatedOrder ==
  [i \in 1..Len(compensated) |->
     [index |-> compensated[i].index, fn |-> compensated[i].fn]]

\* The functions of the compensations that failed, in the order they ran.
RECURSIVE FailedOf(_)
FailedOf(seq) ==
  IF seq = <<>> THEN <<>>
  ELSE IF seq[1].ok THEN FailedOf(Tail(seq))
                    ELSE <<seq[1].fn>> \o FailedOf(Tail(seq))

\* C34: a rollback() of an active transaction that has ended ran every
\* registered compensation once, from the last registered to the first,
\* went on after a failing one, and rejected with one error that lists the
\* failures if there was any; a transaction that commit() or rollback() made
\* inactive stays inactive, a later rollback() runs no compensation, and a
\* later commit() or registerCompensation() throws and changes nothing.
C34_RollbackRunsAllInReverseOnce ==
  /\ [](rollbackCall.pc = "done" =>
          /\ CompensatedOrder = LastToFirst(transaction.compensations)
          /\ rollbackCall.errors = FailedOf(compensated)
          /\ (lastTxnStep.op = "rollback" /\ lastTxnStep.outcome # "returned") =>
               (lastTxnStep.outcome = "rejected" <=> FailedOf(compensated) # <<>>))
  /\ [][ (transaction # NoResult /\ ~transaction.active) =>
           /\ ~transaction'.active
           /\ transaction'.compensations = transaction.compensations
           /\ lastTxnStep'.op = "rollback" =>
                (lastTxnStep'.outcome = "returned" => compensated' = compensated)
           /\ lastTxnStep'.op \in {"commit", "registerCompensation"} =>
                lastTxnStep'.outcome = "threw" ]_vars

\* A rollback of three compensations ended after the second one run had
\* failed: all three ran and rollback() rejected.
C34_Witness ==
  /\ rollbackCall.pc = "done"
  /\ rollbackCall.caller = "direct"
  /\ Len(compensated) = 3
  /\ ~compensated[2].ok /\ compensated[3].ok
  /\ lastTxnStep.op = "rollback" /\ lastTxnStep.outcome = "rejected"

\* C35: whatever public operations were called, a change request that is
\* approved or rejected was submitted for review with success before, and
\* one that is implemented was approved with success before.
C35_ReviewWorkflowEnforced ==
  \A id \in DOMAIN changeRequests :
    /\ changeRequests[id].status \in {"approved", "rejected"} =>
         id \in reviewed.submitted
    /\ changeRequests[id].status = "implemented" => id \in reviewed.approved

\* Stage i of the running pipeline is declared with requiresApproval.
RequiresApproval(i) == pipelines["pipeline-1"].stages[i].requiresApproval

\* C36: an action of a stage declared with requiresApproval has begun only
\* when approveStage succeeded for that stage of the execution.
C36_NoActionBeforeApproval ==
  deployment # NoResult =>
    \A i \in 1..Len(deployment.stages) :
      ( /\ RequiresApproval(i)
        /\ \E j \in 1..Len(deployment.stages[i].actions) :
             deployment.stages[i].actions[j] # "pending" ) =>
        deployment.stages[i].stageName \in Range(deployment.approvals)

\* The stages of the execution whose status is running.
RunningStages ==
  { i \in 1..Len(deployment.stages) : deployment.stages[i].status = "running" }

\* C37: whatever approveStage calls come between the steps of a running
\* execution, a stage has left pending only when every earlier stage is
\* completed (so that stages start in pipeline order and none starts after a
\* failed one), at most one stage is running, an execution that is completed
\* or failed has no running stage, and it is completed exactly when all its
\* stages are.
C37_StagesRunInOrderOneAtATime ==
  deployment # NoResult =>
    /\ \A i, j \in 1..Len(deployment.stages) :
         (i < j /\ deployment.stages[j].status # "pending") =>
           deployment.stages[i].status = "completed"
    /\ Cardinality(RunningStages) <= 1
    /\ deployment.status \in {"completed", "failed"} =>
         /\ RunningStages = {}
         /\ deployment.status = "completed" <=>
              \A i \in 1..Len(deployment.stages) :
                deployment.stages[i].status = "completed"

\* C38: whatever calls of the registry overlap, every id with an instance is
\* the id of a registered integration, and when initializeIntegration(id) has
\* just returned success, getIntegration(id) gives an integration with status
\* active.
C38_InstancesRegisteredAndActive ==
  /\ instances \subseteq DOMAIN integrations
  /\ ( /\ lastReturn # NoResult
       /\ lastReturn.op = "initializeIntegration"
       /\ lastReturn.success = TRUE ) =>
       /\ lastReturn.id \in DOMAIN integrations
       /\ integrations[lastReturn.id].status = "active"

\* The calls of fn that settled before the last one all rejected with an
\* error that may be retried.
EarlierCallsRetried ==
  \A k \in 1..(Len(retryLog.calls) - 1) :
    /\ retryLog.calls[k].status = "rejected"
    /\ ~NotRetryable(retry.config, ToError(retryLog.calls[k].code))

\* What a finished execute(fn, config) has done, given the calls it made.
RetryDone ==
  LET n == Len(retryLog.calls)
  IN  /\ EarlierCallsRetried
      /\ Len(retryLog.waits) = IF n = 0 THEN 0 ELSE n - 1
      /\ IF n >= 1 /\ retryLog.calls[n].status = "resolved"
           THEN retry.result = retryLog.calls[n]
           ELSE IF n >= 1 /\ NotRetryable(retry.config, ToError(retryLog.calls[n].code))
                  THEN retry.result = Rejected(ToError(retryLog.calls[n].code))
                  ELSE /\ n = retry.config.maxAttempts
                       /\ retry.result.status = "rejected"
                       /\ n >= 1 => retry.result = Rejected(ToError(retryLog.calls[n].code))

\* C39: execute(fn, config) ends, having called fn at most maxAttempts
\* times: it returns the value of the first call that resolved, rejects at
\* once with an error that retryableErrors refuses, and otherwise rejects
\* after exactly maxAttempts calls with the error of the last; no delay
\* between two calls is longer than maxDelayMs.
C39_RetryEndsWithinMaxAttempts ==
  /\ [](retry # NoResult =>
          /\ Len(retryLog.calls) <= retry.config.maxAttempts
          /\ \A k \in 1..Len(retryLog.waits) :
               retryLog.waits[k] <= retry.config.maxDelayMs
          /\ retry.pc = "done" => RetryDone)
  /\ <>(retry # NoResult /\ retry.pc = "done")

\* Three calls failed with errors that may be retried, with a delay that
\* reached its cap between them, and execute rejected with the third error.
C39_Witness ==
  /\ retry # NoResult
  /\ retry.pc = "done"
  /\ retry.config.maxAttempts = 3
  /\ Len(retryLog.calls) = 3
  /\ retryLog.waits = <<3, 3>>
  /\ retryLog.calls[3].status = "rejected"
  /\ retry.result = Rejected(ToError(retryLog.calls[3].code))

====
